---------------------------- MODULE Spec2Model ----------------------------
(***************************************************************************)
(* Model of asr4/recognizer_v1/runtime/w2l_decoder.py (W2lKenLMDecoder):   *)
(* construction (token resolution, lexicon, trie), decode over a batch of  *)
(* emissions and the post-processing of hypotheses into words, frame runs  *)
(* and time intervals.                                                     *)
(*                                                                         *)
(* Conventions: Python lists are sequences; a Python index i is position   *)
(* i + 1 of the sequence.  Times are in milliseconds (frameSize 0.02 s is  *)
(* 20).  Scores are integers (log-probabilities scaled).                   *)
(***************************************************************************)
EXTENDS Integers, Sequences, FiniteSets, TLC

VARIABLES
    \* ---- W2lKenLMDecoder._getWordsFrames / _getWordTimestamps, step by step
    tokenIdxs,      \* the alignment being scanned
    i,              \* loop index of enumerate(tokenIdxs)
    wordFound,      \* 0 or 1
    wordFrames,     \* frames accumulated for the current run
    timesteps,      \* runs emitted so far
    timeIntervals,  \* intervals computed by _getWordTimestamps
    fpc,            \* "idle" | "scan" | "intervals" | "done"
    \* ---- the decoder instance (self) and its constructor
    blank,          \* self.blank
    silence,        \* self.silence
    args,           \* the arguments of __init__
    cpc,            \* position in __init__: "assert" ... "ready" | "failed"
    error,          \* the exception that ended __init__, or "none"
    nbest,          \* self._nbest
    subwords,       \* self._subwords
    lexicon,        \* the loaded lexicon (local of __init__)
    wordDict,       \* self._wordDict: word of id k is wordDict[k + 1]
    unkWord,        \* local of _initializeTrie
    pending,        \* spellings that _initializeTrie has still to insert
    trie,           \* the trie of self._decoder: the inserted spellings
    smeared,        \* trie.smear was called
    maxScore,       \* the score of each trie node, by the token path to it
    decoderOpts,    \* options of self._decoder
    \* ---- one call of decode
    emissions,      \* the argument: shape (B, T, N) and the flat float32 data
    b,              \* loop variable of decode
    emissionsPtr,   \* _decodeLexicon: emissionsPtr - emissions.ctypes.data, in bytes
    hypothesis,     \* what _decodeLexicon returned for the last item
    allWords,
    allWordsFrames,
    allScores,
    allTimesteps,
    dpc,            \* "idle" | "loop" | "returned"
    result,         \* the _DecodeResult returned
    \* ---- the beam search of one item, time step by time step
    active,         \* the active hypotheses
    tstep,          \* time steps consumed
    bpc,            \* "idle" | "search" | "done"
    \* ---- decode calls on one instance
    other,          \* the local variables of a second caller of decode
    returned,       \* (emissions, result) of the calls that have returned, in order
    \* ---- RecognizerService (asr4_streaming/recognizer_v1/service.py)
    selfLanguage,   \* self._language: a Language member, or NoneVal
    request,        \* the RecognizeRequest of one Recognize call
    rpc,            \* position in Recognize: "idle" | "source" | "handle" | "sink" | "done" | "failed"
    svcError,       \* the exception that ended the RPC, or "none"
    transcription,  \* the TranscriptionResult of eventHandle
    response,       \* the RecognizeResponse of eventSink
    engineAudio,    \* the audio payloads handed to the engine, in order
    sinkArgs,       \* the durations of the last eventSink call, supplied or defaulted
    \* ---- one StreamingRecognize call
    requestIterator,\* the request stream
    reqPos,         \* requests consumed by the async for
    handler,        \* the local handler: NoneVal or "handler"
    config,         \* the local config (a RecognitionConfig)
    listenerTask,   \* "none" | "listening" | the exception that ended listenForTranscription
    streamHasEnded, \* the Event: set or not
    notified,       \* calls of handler.notifyEndOfAudio so far
    produced,       \* the partial results the handler's iterator has produced, in order
    written,        \* the responses written through the context, in order
    spc,            \* position in StreamingRecognize: "idle" | "loop" | "await" | "done" | "failed"
    yielded,        \* the responses yielded to the client, in order
    \* ---- one call of Language.parse and Language.check (asr4/types/language.py)
    languageArg,    \* the argument
    parsed,         \* what parse returned
    checked,        \* what check returned
    lpc             \* "idle" | "call" | "returned"

frameVars == <<tokenIdxs, i, wordFound, wordFrames, timesteps, timeIntervals, fpc>>
selfVars == <<blank, silence>>
ctorVars == <<args, cpc, error, nbest, subwords, lexicon, wordDict, unkWord, pending,
              trie, smeared, maxScore, decoderOpts>>
decodeVars == <<emissions, b, emissionsPtr, hypothesis, allWords, allWordsFrames,
                allScores, allTimesteps, dpc, result>>
searchVars == <<active, tstep, bpc>>
callVars == <<other, returned>>
serviceVars == <<selfLanguage, request, rpc, svcError, transcription, response, engineAudio,
                 sinkArgs>>
streamVars == <<requestIterator, reqPos, handler, config, listenerTask, streamHasEnded,
                notified, produced, written, spc, yielded>>
langVars == <<languageArg, parsed, checked, lpc>>
vars == <<frameVars, selfVars, ctorVars, decodeVars, searchVars, callVars, serviceVars,
          streamVars, langVars>>

-----------------------------------------------------------------------------
(* Bounds *)

\* longest alignment handed to _getWordsFrames in SpecFrames
MaxLen == 5
\* token indices of the alignments of SpecFrames are 0 .. NumTokens - 1
NumTokens == 4
\* longest vocabulary among those that exercise the token resolution
MaxVocab == 3
\* largest batch handed to decode
MaxB == 2
\* most frames (batch items times time steps) of an emissions tensor
MaxCells == 4
\* the most time steps of a beam search followed step by step
MaxSteps == 3
\* the most decode calls that return on one instance
MaxCalls == 3
\* the most word ids in the word history of a hypothesis
MaxWords == 3
\* the most messages of a request stream
MaxRequests == 3
\* the most results the handler's iterator produces for one stream
MaxResults == 2
\* the most characters of the short strings given to Language.parse
MaxCode == 3

-----------------------------------------------------------------------------
(* Hypothesis post-processing: frames and time intervals *)

\* self.frameSize = 0.02 (seconds), here in milliseconds
frameSize == 20

\* Python's list[i] for -len <= i < len
At(list, idx) == list[((idx + Len(list)) % Len(list)) + 1]

\* the state of the scan before any token
WordsFramesStart == [timesteps |-> <<>>, wordFrames |-> <<>>, wordFound |-> 0]

\* WordsFramesStep with a run closed by every change of token, not by silence only
WordsFramesStepSplitOnChange(st, idx, toks, blk, sil) ==
    LET tokenIdx == At(toks, idx) IN
    IF tokenIdx = blk
    THEN st
    ELSE IF tokenIdx # At(toks, idx - 1) /\ tokenIdx # sil
    THEN IF st.wordFound = 1
         THEN [st EXCEPT !.timesteps = Append(@, st.wordFrames), !.wordFrames = <<idx>>]
         ELSE [st EXCEPT !.wordFound = 1, !.wordFrames = Append(@, idx)]
    ELSE IF st.wordFound = 1 /\ tokenIdx # sil
    THEN [st EXCEPT !.wordFrames = Append(@, idx)]
    ELSE IF tokenIdx = sil /\ st.wordFound = 1
    THEN [st EXCEPT !.timesteps = Append(@, st.wordFrames),
                    !.wordFound = 0, !.wordFrames = <<>>]
    ELSE st

\* WordsFramesStep with the blank token closing the run as silence does
WordsFramesStepBlankCloses(st, idx, toks, blk, sil) ==
    LET tokenIdx == At(toks, idx) IN
    IF tokenIdx # At(toks, idx - 1) /\ tokenIdx # sil /\ tokenIdx # blk
    THEN [st EXCEPT !.wordFound = 1, !.wordFrames = Append(@, idx)]
    ELSE IF st.wordFound = 1 /\ tokenIdx # sil /\ tokenIdx # blk
    THEN [st EXCEPT !.wordFrames = Append(@, idx)]
    ELSE IF tokenIdx \in {sil, blk} /\ st.wordFound = 1
    THEN [st EXCEPT !.timesteps = Append(@, st.wordFrames),
                    !.wordFound = 0, !.wordFrames = <<>>]
    ELSE st

\* WordsFramesStep without the early "continue" on the blank token
WordsFramesStepBlankCounted(st, idx, toks, blk, sil) ==
    LET tokenIdx == At(toks, idx) IN
    IF tokenIdx # At(toks, idx - 1) /\ tokenIdx # sil
    THEN [st EXCEPT !.wordFound = 1, !.wordFrames = Append(@, idx)]
    ELSE IF st.wordFound = 1 /\ tokenIdx # sil
    THEN [st EXCEPT !.wordFrames = Append(@, idx)]
    ELSE IF tokenIdx = sil /\ st.wordFound = 1
    THEN [st EXCEPT !.timesteps = Append(@, st.wordFrames),
                    !.wordFound = 0, !.wordFrames = <<>>]
    ELSE st

\* WordsFramesStep with the closing silence frame counted as the last frame of the run
WordsFramesStepSilenceIncluded(st, idx, toks, blk, sil) ==
    LET tokenIdx == At(toks, idx) IN
    IF tokenIdx = blk
    THEN st
    ELSE IF tokenIdx # At(toks, idx - 1) /\ tokenIdx # sil
    THEN [st EXCEPT !.wordFound = 1, !.wordFrames = Append(@, idx)]
    ELSE IF st.wordFound = 1 /\ tokenIdx # sil
    THEN [st EXCEPT !.wordFrames = Append(@, idx)]
    ELSE IF tokenIdx = sil /\ st.wordFound = 1
    THEN [st EXCEPT !.timesteps = Append(@, Append(st.wordFrames, idx)),
                    !.wordFound = 0, !.wordFrames = <<>>]
    ELSE st

\* WordsFramesStep with every silence closing a run, open or not
WordsFramesStepEverySilenceCloses(st, idx, toks, blk, sil) ==
    LET tokenIdx == At(toks, idx) IN
    IF tokenIdx = blk
    THEN st
    ELSE IF tokenIdx # At(toks, idx - 1) /\ tokenIdx # sil
    THEN [st EXCEPT !.wordFound = 1, !.wordFrames = Append(@, idx)]
    ELSE IF st.wordFound = 1 /\ tokenIdx # sil
    THEN [st EXCEPT !.wordFrames = Append(@, idx)]
    ELSE IF tokenIdx = sil
    THEN [st EXCEPT !.timesteps = Append(@, st.wordFrames),
                    !.wordFound = 0, !.wordFrames = <<>>]
    ELSE st

\* one iteration of the for loop of _getWordsFrames, at index idx
WordsFramesStep(st, idx, toks, blk, sil) ==
    LET tokenIdx == At(toks, idx) IN
    IF tokenIdx = blk
    THEN st
    ELSE IF tokenIdx # At(toks, idx - 1) /\ tokenIdx # sil
    THEN [st EXCEPT !.wordFound = 1, !.wordFrames = Append(@, idx)]
    ELSE IF st.wordFound = 1 /\ tokenIdx # sil
    THEN [st EXCEPT !.wordFrames = Append(@, idx)]
    ELSE IF tokenIdx = sil /\ st.wordFound = 1
    THEN [st EXCEPT !.timesteps = Append(@, st.wordFrames),
                    !.wordFound = 0, !.wordFrames = <<>>]
    ELSE st

RECURSIVE WordsFramesScan(_, _, _, _, _)
WordsFramesScan(st, idx, toks, blk, sil) ==
    IF idx >= Len(toks) THEN st
    ELSE WordsFramesScan(WordsFramesStep(st, idx, toks, blk, sil), idx + 1, toks, blk, sil)

_getWordsFrames(toks, blk, sil) ==
    WordsFramesScan(WordsFramesStart, 0, toks, blk, sil).timesteps

_getFrameTime(frame) == frame * frameSize

\* _extendFramesToBoundaries without the extension of the end boundary
ExtendFramesNoExtension(begin, end) == <<begin, end>>

_extendFramesToBoundaries(begin, end) == <<begin, end + frameSize>>

_getTimeInterval(frames) ==
    _extendFramesToBoundaries(_getFrameTime(frames[1]), _getFrameTime(frames[Len(frames)]))

_getWordTimestamps(toks, blk, sil) ==
    LET frames == _getWordsFrames(toks, blk, sil) IN
    [wordFrames |-> frames,
     timeIntervals |-> [k \in 1..Len(frames) |-> _getTimeInterval(frames[k])]]

-----------------------------------------------------------------------------
(* Construction: W2lKenLMDecoder.__init__ and _initializeTrie *)

\* Python's None, for an Optional[str] argument
NoneVal == "<None>"

\* "x is None" in place of "not x": the empty string passes
FalsyOnlyNone(x) == x = NoneVal

\* "not x" for an Optional[str]
Falsy(x) == x \in {NoneVal, ""}

\* "tok in vocabulary"
Has(vocabulary, tok) == \E k \in 1..Len(vocabulary) : vocabulary[k] = tok

\* vocabulary.index(tok), for a token the vocabulary has: its first position
Index(vocabulary, tok) ==
    (CHOOSE k \in 1..Len(vocabulary) :
        vocabulary[k] = tok /\ \A j \in 1..(k - 1) : vocabulary[j] # tok) - 1

\* the blank index with "<s>" tried before "<ctc_blank>"
ResolveBlankLegacyFirst(vocabulary) ==
    IF Has(vocabulary, "<s>") THEN Index(vocabulary, "<s>")
    ELSE IF Has(vocabulary, "<ctc_blank>") THEN Index(vocabulary, "<ctc_blank>")
    ELSE -1

\* self.blank of __init__; -1 stands for the ValueError of vocabulary.index
ResolveBlank(vocabulary) ==
    IF Has(vocabulary, "<ctc_blank>") THEN Index(vocabulary, "<ctc_blank>")
    ELSE IF Has(vocabulary, "<s>") THEN Index(vocabulary, "<s>")
    ELSE -1

\* the silence index falling back to the first token when no candidate is there
ResolveSilenceFallback(vocabulary) ==
    IF Has(vocabulary, "<sep>") THEN Index(vocabulary, "<sep>")
    ELSE IF Has(vocabulary, "|") THEN Index(vocabulary, "|")
    ELSE IF Has(vocabulary, "</s>") THEN Index(vocabulary, "</s>")
    ELSE 0

\* self.silence of __init__; -1 stands for the ValueError of vocabulary.index
ResolveSilence(vocabulary) ==
    IF Has(vocabulary, "<sep>") THEN Index(vocabulary, "<sep>")
    ELSE IF Has(vocabulary, "|") THEN Index(vocabulary, "|")
    ELSE IF Has(vocabulary, "</s>") THEN Index(vocabulary, "</s>")
    ELSE -1

\* str.lower() on the tokens of the model
Lower(tok) ==
    CASE tok = "A" -> "a"
      [] tok = "B" -> "b"
      [] OTHER -> tok

\* the word "<unk>" of the word dictionary, as a string of characters
UnkWordString == <<"<", "u", "n", "k", ">">>

\* load_words(path): the lexicon files of the model, words as strings of
\* characters, spellings as lists of tokens, in file order
load_words(path) ==
    CASE path = "ab.lex" ->
            << [word |-> <<"a", "b">>, spellings |-> << <<"a", "b">> >>] >>
      [] path = "a_b.lex" ->
            << [word |-> <<"a">>, spellings |-> << <<"a">> >>],
               [word |-> <<"b">>, spellings |-> << <<"b">> >>] >>
      [] path = "a_ab.lex" ->
            << [word |-> <<"a">>, spellings |-> << <<"a">> >>],
               [word |-> <<"a", "b">>, spellings |-> << <<"a", "b">> >>] >>
      [] path = "a.lex" ->
            << [word |-> <<"a">>, spellings |-> << <<"a">> >>] >>
      [] path = "upper.lex" ->
            << [word |-> <<"a", "b">>, spellings |-> << <<"A", "B">> >>] >>
      [] path = "absent.lex" ->
            << [word |-> <<"a">>, spellings |-> << <<"a">> >>],
               [word |-> <<"a", "c">>, spellings |-> << <<"a", "c">> >>] >>
      [] path = "unk.lex" ->
            << [word |-> <<"a">>, spellings |-> << <<"a">>, <<"a", "<unk>">> >>] >>
      [] path = "marks.lex" ->
            << [word |-> <<"_", "a">>, spellings |-> << <<"a">> >>],
               [word |-> <<"b">>, spellings |-> << <<"b">> >>],
               [word |-> <<"b", "_">>, spellings |-> << <<"b", "a">> >>],
               [word |-> <<"_">>, spellings |-> << <<"a", "b">> >>] >>
      [] path = "pieces.lex" ->
            << [word |-> <<"_", "a">>, spellings |-> << <<"a">> >>],
               [word |-> <<"b">>, spellings |-> << <<"b">> >>] >>
      [] OTHER -> <<>>

\* create_word_dict(lexicon): the words in lexicon order, then "<unk>"
create_word_dict(lex) == [k \in 1..Len(lex) |-> lex[k].word] \o <<UnkWordString>>

\* Dictionary.get_index(word)
get_index(dict, word) == (CHOOSE k \in 1..Len(dict) : dict[k] = word) - 1

\* Dictionary.get_entry(idx)
get_entry(dict, idx) == dict[idx + 1]

\* KenLM.score(start state, word): the unigram log-probability of the word
LMScore(word) ==
    CASE word = <<"a", "b">> -> -1
      [] word = <<"a">> -> -2
      [] word = <<"b">> -> -3
      [] word = <<"_", "a">> -> -2
      [] OTHER -> -9

\* the (word, spelling) pairs of the two nested loops of _initializeTrie, in order
RECURSIVE SpellingsOf(_)
SpellingsOf(lex) ==
    IF lex = <<>> THEN <<>>
    ELSE [k \in 1..Len(lex[1].spellings) |->
             [word |-> lex[1].word, spelling |-> lex[1].spellings[k]]]
         \o SpellingsOf(Tail(lex))

\* every token of the spelling, lower-cased, is in the vocabulary
SpellingResolves(vocabulary, spelling) ==
    \A k \in 1..Len(spelling) : Has(vocabulary, Lower(spelling[k]))

\* spellingIdxs with the tokens of the spelling taken in reverse order
SpellingIdxsReversed(vocabulary, spelling) ==
    [k \in 1..Len(spelling) |->
        Index(vocabulary, Lower(spelling[Len(spelling) + 1 - k]))]

\* spellingIdxs of _initializeTrie
SpellingIdxs(vocabulary, spelling) ==
    [k \in 1..Len(spelling) |-> Index(vocabulary, Lower(spelling[k]))]

\* the nodes of the trie: the root and every prefix of an inserted spelling
TrieNodes(tr) ==
    UNION {{SubSeq(e.spelling, 1, k) : k \in 0..Len(e.spelling)} : e \in tr} \cup {<< >>}

\* the nodes one token below the node
ChildrenOf(tr, node) ==
    {m \in TrieNodes(tr) : Len(m) = Len(node) + 1 /\ SubSeq(m, 1, Len(node)) = node}

\* the score a node is created with, before any smearing
UnsmearedScore == 0

MaxOf(S) == CHOOSE x \in S : \A y \in S : y <= x

\* smearing of one node: the maximum of its own payload scores and of the
\* smeared scores of its children
RECURSIVE SmearNode(_, _)
SmearNode(tr, node) ==
    MaxOf({e.score : e \in {p \in tr : p.spelling = node}}
          \cup {SmearNode(tr, c) : c \in ChildrenOf(tr, node)})

\* no smearing at all
SmearingModeNone == "NONE"

\* the argument of trie.smear
SmearingMode == "MAX"

\* Trie.smear(mode): one pass over the nodes that lead to a payload
Smear(scores, tr, mode) ==
    IF mode = "MAX"
    THEN [node \in DOMAIN scores |-> IF tr = {} THEN scores[node] ELSE SmearNode(tr, node)]
    ELSE scores

\* what each Optional[float] weight is: "finite" (its value is the field of
\* that name), "inf", "nan" or "None"
FiniteWeights == [lm_weight |-> "finite", word_score |-> "finite", sil_score |-> "finite"]

\* the arguments of __init__ the model constructs decoders from
BaseArgs ==
    [vocabulary |-> <<"<s>", "|", "a", "b", "<unk>">>, lmFile |-> "lm.arpa",
     lexicon |-> "ab.lex", lm_weight |-> 1, word_score |-> 0, sil_score |-> 0,
     subwords |-> FALSE, weightKind |-> FiniteWeights]

\* the vocabulary of the end-to-end scenario of the specification
ScenarioVocabulary == <<"<s>", "|", "a", "b">>

DecoderArgs ==
    { [BaseArgs EXCEPT !.vocabulary = ScenarioVocabulary],
      BaseArgs,
      [BaseArgs EXCEPT !.lexicon = "a_b.lex"],
      [BaseArgs EXCEPT !.lexicon = "a_ab.lex"],
      [BaseArgs EXCEPT !.vocabulary = <<"<unk>", "a", "</s>", "<ctc_blank>">>,
                       !.lexicon = "a.lex"],
      [BaseArgs EXCEPT !.lexicon = "absent.lex"],
      [BaseArgs EXCEPT !.lexicon = "unk.lex"],
      [BaseArgs EXCEPT !.lexicon = "upper.lex"],
      [BaseArgs EXCEPT !.vocabulary = <<"<s>", "|", "A", "B", "<unk>">>],
      [BaseArgs EXCEPT !.vocabulary = <<"<s>", "|", "A", "B", "<unk>">>,
                       !.lexicon = "upper.lex"],
      [BaseArgs EXCEPT !.lexicon = "pieces.lex", !.subwords = TRUE],
      [BaseArgs EXCEPT !.word_score = -1],
      [BaseArgs EXCEPT !.weightKind.lm_weight = "inf"],
      [BaseArgs EXCEPT !.weightKind.word_score = "nan"],
      [BaseArgs EXCEPT !.weightKind.sil_score = "None"] }
    \cup { [BaseArgs EXCEPT !.lmFile = lm, !.lexicon = lx] :
             lm \in {NoneVal, "", "lm.arpa"}, lx \in {NoneVal, "", "ab.lex"} }

\* tokens the resolution of blank and silence looks for, and one letter
ResolutionTokens == {"<ctc_blank>", "<s>", "<sep>", "|", "</s>", "a"}

IsInjective(seq) == \A j, k \in 1..Len(seq) : j # k => seq[j] # seq[k]

\* vocabularies of up to MaxVocab distinct tokens, to exercise the resolution
ResolutionVocabularies ==
    UNION { {v \in [1..n -> ResolutionTokens] : IsInjective(v)} : n \in 1..MaxVocab }

ResolutionArgs == { [BaseArgs EXCEPT !.vocabulary = v] : v \in ResolutionVocabularies }

\* before __init__ runs: no attribute is set
InitCtor ==
    /\ args \in DecoderArgs \cup ResolutionArgs
    /\ cpc = "assert"
    /\ error = "none"
    /\ blank = -1
    /\ silence = -1
    /\ nbest = 0
    /\ subwords = FALSE
    /\ lexicon = <<>>
    /\ wordDict = <<>>
    /\ unkWord = -1
    /\ pending = <<>>
    /\ trie = {}
    /\ smeared = FALSE
    /\ maxScore = << >>
    /\ decoderOpts = [beam_size |-> 0, beam_size_token |-> 0, beam_threshold |-> 0,
                      lm_weight |-> 0, word_score |-> 0, sil_score |-> 0,
                      unk_token_idx |-> -1]

\* an exception leaves __init__: no instance is returned
Raise(exc) ==
    /\ cpc' = "failed"
    /\ error' = exc

\* lines 44-50: the assert on lmFile and lexicon, then the plain attributes
CtorAssert ==
    /\ cpc = "assert"
    /\ IF Falsy(args.lmFile) \/ Falsy(args.lexicon)
       THEN /\ Raise("AssertionError")
            /\ UNCHANGED <<nbest, subwords>>
       ELSE /\ nbest' = 1
            /\ subwords' = args.subwords
            /\ cpc' = "blank"
            /\ error' = error
    /\ UNCHANGED <<args, lexicon, wordDict, unkWord, pending, trie, smeared, maxScore, decoderOpts,
                   selfVars, frameVars, decodeVars, searchVars, callVars, serviceVars, streamVars,
                   langVars>>

\* lines 52-56
CtorResolveBlank ==
    /\ cpc = "blank"
    /\ IF ResolveBlank(args.vocabulary) = -1
       THEN /\ Raise("ValueError")
            /\ blank' = blank
       ELSE /\ blank' = ResolveBlank(args.vocabulary)
            /\ cpc' = "silence"
            /\ error' = error
    /\ UNCHANGED <<args, nbest, subwords, lexicon, wordDict, unkWord, pending, trie,
                   smeared, maxScore, decoderOpts, silence, frameVars, decodeVars, searchVars, callVars, serviceVars, streamVars,
                   langVars>>

\* lines 57-62
CtorResolveSilence ==
    /\ cpc = "silence"
    /\ IF ResolveSilence(args.vocabulary) = -1
       THEN /\ Raise("ValueError")
            /\ silence' = silence
       ELSE /\ silence' = ResolveSilence(args.vocabulary)
            /\ cpc' = "load"
            /\ error' = error
    /\ UNCHANGED <<args, nbest, subwords, lexicon, wordDict, unkWord, pending, trie,
                   smeared, maxScore, decoderOpts, blank, frameVars, decodeVars, searchVars, callVars, serviceVars, streamVars,
                   langVars>>

\* lines 64-66: load_words, create_word_dict, KenLM
CtorLoadLexicon ==
    /\ cpc = "load"
    /\ lexicon' = load_words(args.lexicon)
    /\ wordDict' = create_word_dict(load_words(args.lexicon))
    /\ cpc' = "trie"
    /\ UNCHANGED <<args, error, nbest, subwords, unkWord, pending, trie, smeared, maxScore,
                   decoderOpts, selfVars, frameVars, decodeVars, searchVars, callVars, serviceVars, streamVars,
                   langVars>>

\* _initializeTrie with unkWord = -1 for a vocabulary without "<unk>"
InitializeTrieBeginWithoutUnk ==
    /\ cpc = "trie"
    /\ unkWord' = IF Has(args.vocabulary, "<unk>")
                  THEN Index(args.vocabulary, "<unk>") ELSE -1
    /\ pending' = SpellingsOf(lexicon)
    /\ cpc' = "insert"
    /\ error' = error
    /\ trie' = {}
    /\ maxScore' = [node \in {<< >>} |-> UnsmearedScore]
    /\ UNCHANGED <<args, nbest, subwords, lexicon, wordDict, smeared, decoderOpts,
                   selfVars, frameVars, decodeVars, searchVars, callVars, serviceVars,
                   streamVars, langVars>>

\* lines 98-100: the empty trie and the lookup of "<unk>" in the vocabulary
InitializeTrieBegin ==
    /\ cpc = "trie"
    /\ IF ~Has(args.vocabulary, "<unk>")
       THEN /\ Raise("ValueError")
            /\ UNCHANGED <<unkWord, pending>>
       ELSE /\ unkWord' = Index(args.vocabulary, "<unk>")
            /\ pending' = SpellingsOf(lexicon)
            /\ cpc' = "insert"
            /\ error' = error
    /\ trie' = {}
    /\ maxScore' = [node \in {<< >>} |-> UnsmearedScore]
    /\ UNCHANGED <<args, nbest, subwords, lexicon, wordDict, smeared, decoderOpts,
                   selfVars, frameVars, decodeVars, searchVars, callVars, serviceVars, streamVars,
                   langVars>>

\* one spelling of one word, the tokens the vocabulary lacks silently dropped
InitializeTrieInsertDropping ==
    /\ cpc = "insert"
    /\ pending # <<>>
    /\ LET word == pending[1].word
           known == SelectSeq(pending[1].spelling,
                              LAMBDA tok : Has(args.vocabulary, Lower(tok)))
       IN IF \E k \in 1..Len(known) : SpellingIdxs(args.vocabulary, known)[k] = unkWord
          THEN /\ Raise("AssertionError")
               /\ UNCHANGED <<trie, pending, maxScore>>
          ELSE /\ trie' = trie \cup
                      {[spelling |-> SpellingIdxs(args.vocabulary, known),
                        word |-> get_index(wordDict, word),
                        score |-> LMScore(word)]}
               /\ maxScore' = [node \in TrieNodes(trie') |->
                                 IF node \in DOMAIN maxScore THEN maxScore[node]
                                 ELSE UnsmearedScore]
               /\ pending' = Tail(pending)
               /\ UNCHANGED <<cpc, error>>
    /\ UNCHANGED <<args, nbest, subwords, lexicon, wordDict, unkWord, smeared,
                   decoderOpts, selfVars, frameVars, decodeVars, searchVars, callVars, serviceVars, streamVars,
                   langVars>>

\* lines 101-109: one spelling of one word
InitializeTrieInsert ==
    /\ cpc = "insert"
    /\ pending # <<>>
    /\ LET word == pending[1].word
           spelling == pending[1].spelling
       IN IF ~SpellingResolves(args.vocabulary, spelling)
          THEN /\ Raise("ValueError")
               /\ UNCHANGED <<trie, pending, maxScore>>
          ELSE IF \E k \in 1..Len(spelling) :
                      SpellingIdxs(args.vocabulary, spelling)[k] = unkWord
          THEN /\ Raise("AssertionError")
               /\ UNCHANGED <<trie, pending, maxScore>>
          ELSE /\ trie' = trie \cup
                      {[spelling |-> SpellingIdxs(args.vocabulary, spelling),
                        word |-> get_index(wordDict, word),
                        score |-> LMScore(word)]}
               /\ maxScore' = [node \in TrieNodes(trie') |->
                                 IF node \in DOMAIN maxScore THEN maxScore[node]
                                 ELSE UnsmearedScore]
               /\ pending' = Tail(pending)
               /\ UNCHANGED <<cpc, error>>
    /\ UNCHANGED <<args, nbest, subwords, lexicon, wordDict, unkWord, smeared,
                   decoderOpts, selfVars, frameVars, decodeVars, searchVars, callVars, serviceVars, streamVars,
                   langVars>>

\* line 110-111: trie.smear(SmearingMode.MAX), return
InitializeTrieSmear ==
    /\ cpc = "insert"
    /\ pending = <<>>
    /\ smeared' = TRUE
    /\ maxScore' = Smear(maxScore, trie, SmearingMode)
    /\ cpc' = "options"
    /\ UNCHANGED <<args, error, nbest, subwords, lexicon, wordDict, unkWord, pending,
                   trie, decoderOpts, selfVars, frameVars, decodeVars, searchVars, callVars, serviceVars, streamVars,
                   langVars>>

\* the options with a wider beam and a wider score window
DecoderOptionsWide(a, dict) ==
    [beam_size |-> 30,
     beam_size_token |-> Len(a.vocabulary),
     beam_threshold |-> 100,
     lm_weight |-> a.lm_weight,
     word_score |-> a.word_score,
     sil_score |-> a.sil_score,
     unk_token_idx |-> get_index(dict, UnkWordString)]

\* LexiconDecoderOptions and the unknown-word index handed to LexiconDecoder
DecoderOptions(a, dict) ==
    [beam_size |-> 15,
     beam_size_token |-> Len(a.vocabulary),
     beam_threshold |-> 25,
     lm_weight |-> a.lm_weight,
     word_score |-> a.word_score,
     sil_score |-> a.sil_score,
     unk_token_idx |-> get_index(dict, UnkWordString)]

\* lines 69-90: the options and the LexiconDecoder; the weights go to
\* LexiconDecoderOptions as they are, and only None cannot be passed as a float
CtorBuildDecoder ==
    /\ cpc = "options"
    /\ IF \E w \in DOMAIN args.weightKind : args.weightKind[w] = "None"
       THEN /\ Raise("TypeError")
            /\ UNCHANGED decoderOpts
       ELSE /\ decoderOpts' = DecoderOptions(args, wordDict)
            /\ cpc' = "ready"
            /\ error' = error
    /\ UNCHANGED <<args, nbest, subwords, lexicon, wordDict, unkWord, pending,
                   trie, smeared, maxScore, selfVars, frameVars, decodeVars, searchVars, callVars, serviceVars, streamVars,
                   langVars>>

Constructor ==
    \/ CtorAssert
    \/ CtorResolveBlank
    \/ CtorResolveSilence
    \/ CtorLoadLexicon
    \/ InitializeTrieBegin
    \/ InitializeTrieInsert
    \/ InitializeTrieSmear
    \/ CtorBuildDecoder

-----------------------------------------------------------------------------
(* The lexicon beam search behind self._decoder.decode *)

\* an emission at or below this floor is a negligible probability: not expanded
Floor == -100

\* the trie node reached by the token path has a child for token n
HasChild(tr, node, n) ==
    \E e \in tr : /\ Len(e.spelling) > Len(node)
                  /\ SubSeq(e.spelling, 1, Len(node) + 1) = Append(node, n)

\* the (word, score) payloads of the node: the spellings that end there
Payloads(tr, node) == {e \in tr : e.spelling = node}

\* the beam at time step 0
InitialBeam ==
    {[score |-> 0, node |-> <<>>, tokens |-> <<>>, words |-> <<>>]}

\* the hypotheses that extend h by token n with emission score e
Expand(h, n, e, tr, blk, sil, opts) ==
    IF n = blk
    THEN {[h EXCEPT !.score = @ + e, !.tokens = Append(@, n)]}
    ELSE IF n = sil
    THEN IF Payloads(tr, h.node) # {}
         THEN {[score |-> h.score + e + opts.lm_weight * p.score
                              + opts.word_score + opts.sil_score,
                node |-> <<>>,
                tokens |-> Append(h.tokens, n),
                words |-> Append(h.words, p.word)] : p \in Payloads(tr, h.node)}
         ELSE IF h.node = <<>>
         THEN {[h EXCEPT !.score = @ + e + opts.sil_score, !.tokens = Append(@, n)]}
         ELSE {}
    ELSE IF h.tokens # <<>> /\ h.tokens[Len(h.tokens)] = n
    THEN {[h EXCEPT !.score = @ + e, !.tokens = Append(@, n)]}
    ELSE IF HasChild(tr, h.node, n)
    THEN {[h EXCEPT !.score = @ + e, !.tokens = Append(@, n), !.node = Append(@, n)]}
    ELSE {}

\* all expansions of the beam over one frame (frame[n + 1] scores token n)
Candidates(beam, frame, tr, blk, sil, opts) ==
    UNION {Expand(h, n - 1, frame[n], tr, blk, sil, opts) :
              h \in beam, n \in {m \in 1..Len(frame) : frame[m] > Floor}}

RECURSIVE LexLess(_, _)
LexLess(s, t) ==
    IF s = <<>> THEN t # <<>>
    ELSE IF t = <<>> THEN FALSE
    ELSE IF s[1] # t[1] THEN s[1] < t[1]
    ELSE LexLess(Tail(s), Tail(t))

\* the ranking of hypotheses: higher score, then shorter token history, then
\* a fixed order of the histories
RanksBefore(g, h) ==
    \/ g.score > h.score
    \/ g.score = h.score /\ Len(g.tokens) < Len(h.tokens)
    \/ g.score = h.score /\ Len(g.tokens) = Len(h.tokens) /\ LexLess(g.tokens, h.tokens)
    \/ g.score = h.score /\ g.tokens = h.tokens /\ LexLess(g.words, h.words)

\* the k best hypotheses of the set, best first
RECURSIVE Ranked(_, _)
Ranked(hyps, k) ==
    IF k = 0 \/ hyps = {} THEN <<>>
    ELSE LET best == CHOOSE g \in hyps : \A h \in hyps \ {g} : RanksBefore(g, h)
         IN <<best>> \o Ranked(hyps \ {best}, k - 1)

SeqToSet(seq) == {seq[k] : k \in 1..Len(seq)}

\* pruning after a step: the score window, then the beam width
Prune(cands, opts) ==
    IF cands = {} THEN {}
    ELSE LET best == CHOOSE g \in cands : \A h \in cands : g.score >= h.score
             window == {h \in cands : h.score >= best.score - opts.beam_threshold}
         IN IF Cardinality(window) <= opts.beam_size THEN window
            ELSE SeqToSet(Ranked(window, opts.beam_size))

\* the beam after the frames t+1 .. T of the slice
RECURSIVE BeamAfter(_, _, _, _, _, _, _, _, _)
BeamAfter(beam, slice, t, T, N, tr, blk, sil, opts) ==
    IF t = T THEN beam
    ELSE BeamAfter(Prune(Candidates(beam, SubSeq(slice, t * N + 1, (t + 1) * N),
                                    tr, blk, sil, opts), opts),
                   slice, t + 1, T, N, tr, blk, sil, opts)

\* LexiconDecoder.decode(ptr, T, N): the final hypotheses, best first, each a
\* DecodeResult with score, tokens (the alignment) and words (word ids)
LexiconDecode(slice, T, N, tr, blk, sil, opts) ==
    LET final == BeamAfter(InitialBeam, slice, 0, T, N, tr, blk, sil, opts)
        ranked == Ranked(final, Cardinality(final))
    IN [k \in 1..Len(ranked) |->
           [score |-> ranked[k].score, tokens |-> ranked[k].tokens,
            words |-> ranked[k].words]]

-----------------------------------------------------------------------------
(* decode: the batch loop, _decodeLexicon and _postProcessHypothesis *)

\* bytes of one float32 element of the emissions array
ItemSize == 4

\* emissions.strides[0] of a C-contiguous float32 array of shape (B, T, N)
Stride0(T, N) == T * N * ItemSize

\* emissionsPtr - emissions.ctypes.data of _decodeLexicon, in bytes
ByteOffset(bb, T, N) == bb * (Stride0(T, N) \div 2)

\* the T * N floats the decoder reads from emissionsPtr
EmissionSlice(em, bb) ==
    LET first == ByteOffset(bb, em.T, em.N) \div ItemSize
    IN SubSeq(em.data, first + 1, first + em.T * em.N)

\* results[-n :]
TakeLast(seq, n) ==
    SubSeq(seq, (IF n < Len(seq) THEN Len(seq) - n ELSE 0) + 1, Len(seq))

\* results[: n]
Take(seq, n) == SubSeq(seq, 1, IF n < Len(seq) THEN n ELSE Len(seq))

\* _decodeLexicon returning every result of the search
_decodeLexiconAll(em, bb, tr, blk, sil, opts, nb) ==
    LexiconDecode(EmissionSlice(em, bb), em.T, em.N, tr, blk, sil, opts)

\* _decodeLexicon(emissions, b)
_decodeLexicon(em, bb, tr, blk, sil, opts, nb) ==
    Take(LexiconDecode(EmissionSlice(em, bb), em.T, em.N, tr, blk, sil, opts), nb)

\* sep.join(strings), strings as sequences of characters
RECURSIVE Join(_, _)
Join(strings, sep) ==
    IF strings = <<>> THEN <<>>
    ELSE IF Len(strings) = 1 THEN strings[1]
    ELSE strings[1] \o sep \o Join(Tail(strings), sep)

\* str.replace("_", " ")
ReplaceUnderscore(str) == [k \in 1..Len(str) |-> IF str[k] = "_" THEN " " ELSE str[k]]

\* str.split(): the maximal runs of non-blank characters (cur is the run being read)
RECURSIVE SplitFrom(_, _, _)
SplitFrom(str, cur, out) ==
    IF str = <<>> THEN (IF cur = <<>> THEN out ELSE Append(out, cur))
    ELSE IF str[1] = " "
    THEN SplitFrom(Tail(str), <<>>, IF cur = <<>> THEN out ELSE Append(out, cur))
    ELSE SplitFrom(Tail(str), Append(cur, str[1]), out)

Split(str) == SplitFrom(str, <<>>, <<>>)

\* the pieces joined and split, the underscores left in place
process_word_piece_raw(words) == Split(Join(words, <<>>))

\* process_word_piece(words)
process_word_piece(words) == Split(ReplaceUnderscore(Join(words, <<>>)))

\* the entries of the word ids above zero
EntriesOfPositive(dict, wordIds) ==
    LET kept == SelectSeq(wordIds, LAMBDA x : x > 0)
    IN [k \in 1..Len(kept) |-> get_entry(dict, kept[k])]

\* the entries of the non-negative word ids of a result
EntriesOf(dict, wordIds) ==
    LET kept == SelectSeq(wordIds, LAMBDA x : x >= 0)
    IN [k \in 1..Len(kept) |-> get_entry(dict, kept[k])]

\* the word string of one result (lines 150-167)
WordString(res, dict, sub) ==
    IF ~sub
    THEN Join(EntriesOf(dict, res.words), <<" ">>)
    ELSE Join(process_word_piece(EntriesOf(dict, res.words)), <<" ">>)

\* _postProcessHypothesis answering an empty hypothesis list with one empty
\* placeholder hypothesis
PostProcessPlaceholder(hypotesis, dict, sub, blk, sil) ==
    IF hypotesis = <<>>
    THEN [words |-> << <<>> >>, wordsFrames |-> << <<>> >>, scores |-> <<0>>,
          timesteps |-> << <<>> >>]
    ELSE [words |-> [k \in 1..Len(hypotesis) |-> WordString(hypotesis[k], dict, sub)],
          wordsFrames |-> [k \in 1..Len(hypotesis) |->
                         _getWordTimestamps(hypotesis[k].tokens, blk, sil).wordFrames],
          scores |-> [k \in 1..Len(hypotesis) |-> hypotesis[k].score],
          timesteps |-> [k \in 1..Len(hypotesis) |->
                       _getWordTimestamps(hypotesis[k].tokens, blk, sil).timeIntervals]]

\* _postProcessHypothesis(hypotesis)
_postProcessHypothesis(hypotesis, dict, sub, blk, sil) ==
    [words |-> [k \in 1..Len(hypotesis) |-> WordString(hypotesis[k], dict, sub)],
     wordsFrames |-> [k \in 1..Len(hypotesis) |->
                         _getWordTimestamps(hypotesis[k].tokens, blk, sil).wordFrames],
     scores |-> [k \in 1..Len(hypotesis) |-> hypotesis[k].score],
     timesteps |-> [k \in 1..Len(hypotesis) |->
                       _getWordTimestamps(hypotesis[k].tokens, blk, sil).timeIntervals]]

\* _DecodeResult built with label_sequences only: the other fields take the
\* placeholder defaults of the dataclass
DecodeResultDefaults(aw, awf, asc, ats) ==
    [label_sequences |-> aw,
     wordsFrames |-> << << << <<0, 0>> >> >> >>,
     scores |-> << <<0>> >>,
     timesteps |-> << << << <<0, 0>> >> >> >>]

\* the _DecodeResult returned by decode (lines 126-131)
DecodeResultOf(aw, awf, asc, ats) ==
    [label_sequences |-> aw, wordsFrames |-> awf, scores |-> asc, timesteps |-> ats]

\* emission scores of the model: the favoured token of a frame, the others, and
\* a score below the floor
Favoured == 0
Unfavoured == -30
Negligible == -1000

\* a frame of kind k < N favours token k; the frame of kind N is negligible
\* for every token
FrameOf(kind, N) ==
    [n \in 1..N |-> IF kind = N THEN Negligible
                    ELSE IF n - 1 = kind THEN Favoured ELSE Unfavoured]

RECURSIVE Flatten(_, _)
Flatten(kinds, N) ==
    IF kinds = <<>> THEN <<>> ELSE FrameOf(kinds[1], N) \o Flatten(Tail(kinds), N)

\* the emissions tensor of shape (B, T, N) with the given frame kinds
Tensor(B, T, N, kinds) == [B |-> B, T |-> T, N |-> N, data |-> Flatten(kinds, N)]

\* every float the decoder reads starts at an element boundary
AlignedReads(B, T, N) == \A bb \in 0..(B - 1) : ByteOffset(bb, T, N) % ItemSize = 0

\* the shapes of the model: up to MaxB items, up to MaxCells frames in all
Shapes(N) ==
    {sh \in (1..MaxB) \X (0..MaxCells) :
        sh[1] * sh[2] <= MaxCells /\ AlignedReads(sh[1], sh[2], N)}

\* the frames of the end-to-end scenario: a, a, b, b, |
ScenarioKinds == <<2, 2, 3, 3, 1>>

EmissionInputs(N) ==
    UNION { {Tensor(sh[1], sh[2], N, kinds) : kinds \in [1..(sh[1] * sh[2]) -> 0..N]} :
              sh \in Shapes(N) }
    \cup {Tensor(1, 5, N, ScenarioKinds)}

NoEmissions == [B |-> 0, T |-> 0, N |-> 0, data |-> <<>>]
NoResult == [label_sequences |-> <<>>, wordsFrames |-> <<>>, scores |-> <<>>,
             timesteps |-> <<>>]

\* no decode call is running
InitDecode ==
    /\ emissions = NoEmissions
    /\ b = 0
    /\ emissionsPtr = 0
    /\ hypothesis = <<>>
    /\ allWords = <<>>
    /\ allWordsFrames = <<>>
    /\ allScores = <<>>
    /\ allTimesteps = <<>>
    /\ dpc = "idle"
    /\ result = NoResult

\* decode(emissions) is called on a constructed decoder (lines 114-116)
DecodeBegin ==
    /\ cpc = "ready"
    /\ dpc = "idle"
    /\ args.weightKind = FiniteWeights
    /\ \E em \in EmissionInputs(Len(args.vocabulary)) : emissions' = em
    /\ b' = 0
    /\ allWords' = <<>>
    /\ allWordsFrames' = <<>>
    /\ allScores' = <<>>
    /\ allTimesteps' = <<>>
    /\ dpc' = "loop"
    /\ UNCHANGED <<emissionsPtr, hypothesis, result, selfVars, ctorVars, frameVars,
                   searchVars, callVars, serviceVars, streamVars, langVars>>

\* one iteration of the loop over the batch (lines 117-125)
DecodeItem ==
    /\ dpc = "loop"
    /\ b < emissions.B
    /\ LET hyp == _decodeLexicon(emissions, b, trie, blank, silence, decoderOpts, nbest)
           post == _postProcessHypothesis(hyp, wordDict, subwords, blank, silence)
       IN /\ hypothesis' = hyp
          /\ emissionsPtr' = ByteOffset(b, emissions.T, emissions.N)
          /\ allWords' = Append(allWords, post.words)
          /\ allWordsFrames' = Append(allWordsFrames, post.wordsFrames)
          /\ allScores' = Append(allScores, post.scores)
          /\ allTimesteps' = Append(allTimesteps, post.timesteps)
    /\ b' = b + 1
    /\ UNCHANGED <<emissions, dpc, result, selfVars, ctorVars, frameVars,
                   searchVars, callVars, serviceVars, streamVars, langVars>>

\* the loop is over: return the _DecodeResult (lines 126-131)
DecodeReturn ==
    /\ dpc = "loop"
    /\ b = emissions.B
    /\ result' = DecodeResultOf(allWords, allWordsFrames, allScores, allTimesteps)
    /\ dpc' = "returned"
    /\ UNCHANGED <<emissions, b, emissionsPtr, hypothesis, allWords, allWordsFrames,
                   allScores, allTimesteps, selfVars, ctorVars, frameVars,
                   searchVars, callVars, serviceVars, streamVars, langVars>>

Decode == DecodeBegin \/ DecodeItem \/ DecodeReturn

-----------------------------------------------------------------------------
(* Spec: a decoder is constructed, then decode is called on it *)

\* the frame scan of SpecFrames is not running
FramesIdle ==
    /\ tokenIdxs = <<>>
    /\ i = 0
    /\ wordFound = 0
    /\ wordFrames = <<>>
    /\ timesteps = <<>>
    /\ timeIntervals = <<>>
    /\ fpc = "idle"

\* no beam search is being followed step by step
SearchIdle ==
    /\ active = {}
    /\ tstep = 0
    /\ bpc = "idle"

\* the local variables of a caller that has not called decode
NoCaller ==
    [emissions |-> NoEmissions, b |-> 0, allWords |-> << >>, allWordsFrames |-> << >>,
     allScores |-> << >>, allTimesteps |-> << >>, dpc |-> "idle", result |-> NoResult,
     beganAt |-> -1, endedAt |-> -1]

\* no second caller, no call has returned
CallsIdle ==
    /\ other = NoCaller
    /\ returned = << >>

\* RecognitionConfig(): every field at its protobuf default
DefaultConfig ==
    [language |-> << >>, sample_rate_hz |-> 0, audio_encoding |-> "PCM",
     topic |-> "GENERIC"]

\* RecognizeRequest()
NoRequest == [config |-> DefaultConfig, audio |-> << >>]

\* Duration(seconds=0, nanos=0)
ZeroDuration == [seconds |-> 0, nanos |-> 0]

NoTranscription == [transcription |-> << >>, score |-> 0, words |-> << >>]

NoResponse == [alternatives |-> << >>, end_time |-> ZeroDuration, duration |-> ZeroDuration]

\* eventSink was not called
NoSinkArgs == [supplied |-> FALSE, duration |-> ZeroDuration, endTime |-> ZeroDuration]

\* Python's None, a Language member and a str, as values of one shape
PyNone == [type |-> "NoneType", v |-> << >>]

\* no Recognize call is being followed
ServiceIdle ==
    /\ request = NoRequest
    /\ rpc = "idle"
    /\ svcError = "none"
    /\ transcription = NoTranscription
    /\ response = NoResponse
    /\ engineAudio = << >>
    /\ sinkArgs = NoSinkArgs

\* no StreamingRecognize call is being followed
StreamIdle ==
    /\ requestIterator = << >>
    /\ reqPos = 0
    /\ handler = NoneVal
    /\ config = DefaultConfig
    /\ listenerTask = "none"
    /\ streamHasEnded = FALSE
    /\ notified = 0
    /\ produced = << >>
    /\ written = << >>
    /\ spc = "idle"
    /\ yielded = << >>

\* no call of Language.parse is being followed
LanguageIdle ==
    /\ languageArg = PyNone
    /\ parsed = PyNone
    /\ checked = FALSE
    /\ lpc = "idle"

\* no RecognizerService has been constructed
NoService == selfLanguage = PyNone /\ ServiceIdle /\ StreamIdle /\ LanguageIdle

Init == InitCtor /\ InitDecode /\ FramesIdle /\ SearchIdle /\ CallsIdle /\ NoService

Next == Constructor \/ Decode

Spec == Init /\ [][Next]_vars

-----------------------------------------------------------------------------
(* Properties of construction and decode (Spec) *)

\* the arguments of the end-to-end scenario as the specification states them
ScenarioArgs == [BaseArgs EXCEPT !.vocabulary = ScenarioVocabulary]

\* the emissions of the end-to-end scenario for a vocabulary of N tokens
ScenarioEmissions(N) == Tensor(1, 5, N, ScenarioKinds)

\* C1 as stated: with the vocabulary <s>, |, a, b and the lexicon ab -> a b the
\* decoder can be constructed, and decode of the frames a, a, b, b, | returns
\* the word string "ab" with the single interval (0, 100) ms.
C1_Original_Scenario ==
    /\ (args = ScenarioArgs) => cpc # "failed"
    /\ (args = ScenarioArgs /\ dpc = "returned" /\ emissions = ScenarioEmissions(4)) =>
          /\ result.label_sequences = << << <<"a", "b">> >> >>
          /\ result.timesteps = << << << <<0, 100>> >> >> >>

\* C1 amended: with the vocabulary as stated construction never completes (the
\* trie builder fails with ValueError looking up "<unk>"); with "<unk>" added
\* the decoder is constructed and decode of the frames a, a, b, b, |, whose
\* alignment is a, a, b, b, | with the word ab, returns the word string "ab"
\* with the single run of frames 0..3 and the single interval (0, 80) ms.
C1_Scenario ==
    /\ (args = ScenarioArgs) =>
          /\ cpc # "ready"
          /\ dpc = "idle"
          /\ (cpc = "failed" => error = "ValueError" /\ trie = {} /\ lexicon # <<>>)
    /\ (args = BaseArgs /\ dpc = "returned" /\ emissions = ScenarioEmissions(5)) =>
          /\ cpc = "ready"
          /\ hypothesis = <<[score |-> -1, tokens |-> <<2, 2, 3, 3, 1>>, words |-> <<0>>]>>
          /\ result.label_sequences = << << <<"a", "b">> >> >>
          /\ result.wordsFrames = << << << <<0, 1, 2, 3>> >> >> >>
          /\ result.timesteps = << << << <<0, 80>> >> >> >>

C1_Witness ==
    /\ args = BaseArgs
    /\ dpc = "returned"
    /\ emissions = ScenarioEmissions(5)
    /\ result.label_sequences = << << <<"a", "b">> >> >>

\* the items of the batch that decode has processed so far
Processed == 1..Len(allWords)

\* C2: for every hypothesis post-processed, the number of time intervals equals
\* the number of words of its word string.
C2_OneIntervalPerWord ==
    \A k \in Processed : \A j \in 1..Len(allWords[k]) :
        Len(allTimesteps[k][j]) = Len(Split(allWords[k][j]))

\* the emissions of batch item bb alone: elements bb*T*N .. (bb+1)*T*N - 1
OwnSlice(em, bb) == SubSeq(em.data, bb * em.T * em.N + 1, (bb + 1) * em.T * em.N)

\* what decode gives for an item when the search reads exactly the slice given
ItemResult(slice, T, N) ==
    _postProcessHypothesis(
        Take(LexiconDecode(slice, T, N, trie, blank, silence, decoderOpts), nbest),
        wordDict, subwords, blank, silence)

\* C3: the slice handed to the search for item b starts at element b*T*N, and
\* the words, frames, scores and intervals of item b are those of its own
\* emissions, whatever the other items hold.
C3_ItemsIndependent ==
    /\ (dpc = "loop" /\ b > 0) =>
          emissionsPtr = (b - 1) * emissions.T * emissions.N * ItemSize
    /\ \A k \in Processed :
          LET own == ItemResult(OwnSlice(emissions, k - 1), emissions.T, emissions.N)
          IN /\ allWords[k] = own.words
             /\ allWordsFrames[k] = own.wordsFrames
             /\ allScores[k] = own.scores
             /\ allTimesteps[k] = own.timesteps

\* C8: decode of emissions with T = 0 returns, for every batch item, one
\* hypothesis with an empty word string, no frame runs, no intervals, score 0.
C8_EmptyAudio ==
    (dpc = "returned" /\ emissions.T = 0) =>
        /\ Len(result.label_sequences) = emissions.B
        /\ Len(result.wordsFrames) = emissions.B
        /\ Len(result.scores) = emissions.B
        /\ Len(result.timesteps) = emissions.B
        /\ \A k \in 1..emissions.B :
              /\ result.label_sequences[k] = << <<>> >>
              /\ result.wordsFrames[k] = << <<>> >>
              /\ result.scores[k] = <<0>>
              /\ result.timesteps[k] = << <<>> >>

C8_Witness ==
    /\ dpc = "returned"
    /\ emissions.T = 0
    /\ emissions.B = 2
    /\ result.scores = << <<0>>, <<0>> >>

\* the search leaves no hypothesis for item bb of the batch
NoSurvivor(em, bb) ==
    LexiconDecode(EmissionSlice(em, bb), em.T, em.N, trie, blank, silence, decoderOpts) = <<>>

\* C9: an item for which the search leaves no hypothesis gets empty lists in
\* label_sequences, wordsFrames, scores and timesteps, and decode goes on to
\* return entries for all items of the batch.
C9_NoSurvivors ==
    /\ (dpc = "loop" /\ b > 0 /\ hypothesis = <<>>) =>
          /\ allWords[b] = <<>>
          /\ allWordsFrames[b] = <<>>
          /\ allScores[b] = <<>>
          /\ allTimesteps[b] = <<>>
    /\ (dpc = "returned") =>
          /\ Len(result.label_sequences) = emissions.B
          /\ \A k \in 1..emissions.B :
                NoSurvivor(emissions, k - 1) =>
                    /\ result.label_sequences[k] = <<>>
                    /\ result.wordsFrames[k] = <<>>
                    /\ result.scores[k] = <<>>
                    /\ result.timesteps[k] = <<>>

\* C9 witness: the first item has no survivor, the second was still decoded
C9_Witness ==
    /\ dpc = "returned"
    /\ emissions.B = 2
    /\ NoSurvivor(emissions, 0)
    /\ result.label_sequences[1] = <<>>
    /\ result.scores[2] # <<>>

\* C10: once resolved, the blank index is the position of "<ctc_blank>" when
\* the vocabulary has it, else that of "<s>"; the silence index is the position
\* of "<sep>", else of "|", else of "</s>".
C10_TokenResolution ==
    LET v == args.vocabulary IN
    /\ (cpc \in {"silence", "load", "trie", "insert", "options", "ready"}) => blank # -1
    /\ (cpc \in {"load", "trie", "insert", "options", "ready"}) => silence # -1
    /\ (blank # -1) =>
          /\ blank \in 0..(Len(v) - 1)
          /\ v[blank + 1] = IF Has(v, "<ctc_blank>") THEN "<ctc_blank>" ELSE "<s>"
    /\ (silence # -1) =>
          /\ silence \in 0..(Len(v) - 1)
          /\ v[silence + 1] = IF Has(v, "<sep>") THEN "<sep>"
                               ELSE IF Has(v, "|") THEN "|" ELSE "</s>"

\* C10 witness: "<s>" precedes "<ctc_blank>", "|" is taken though "</s>" is absent
C10_Witness ==
    /\ args.vocabulary = <<"<s>", "<ctc_blank>", "|">>
    /\ blank = 1
    /\ silence = 2

\* the steps of __init__ from the loading of the lexicon on
AfterResolution == {"load", "trie", "insert", "options", "ready"}

NoBlankCandidate(v) == ~Has(v, "<ctc_blank>") /\ ~Has(v, "<s>")
NoSilenceCandidate(v) == ~Has(v, "<sep>") /\ ~Has(v, "|") /\ ~Has(v, "</s>")

\* C11: with a vocabulary that has none of the blank candidates, or none of the
\* silence candidates, __init__ never reaches the loading of the lexicon: the
\* lexicon, the word dictionary and the trie stay untouched, the only way out
\* is an exception, and no decode runs since no instance exists.
C11_NoCandidateFails ==
    (NoBlankCandidate(args.vocabulary) \/ NoSilenceCandidate(args.vocabulary)) =>
        /\ cpc \notin AfterResolution
        /\ lexicon = <<>>
        /\ wordDict = <<>>
        /\ trie = {}
        /\ ~smeared
        /\ dpc = "idle"
        /\ (cpc = "failed") => (error \in {"ValueError", "AssertionError"})
        /\ (cpc = "silence") => ~NoBlankCandidate(args.vocabulary)

\* C11 witness: the blank was resolved, no silence candidate, ValueError raised
C11_Witness ==
    /\ NoSilenceCandidate(args.vocabulary)
    /\ ~Falsy(args.lmFile) /\ ~Falsy(args.lexicon)
    /\ blank # -1
    /\ silence = -1
    /\ cpc = "failed"
    /\ error = "ValueError"

\* a path argument that is None or the empty string
MissingPath(path) == path = NoneVal \/ path = ""

\* C12: with a missing or empty language-model path or lexicon path, __init__
\* fails on its first statement with an AssertionError: no vocabulary lookup
\* (blank and silence stay unset), no lexicon, no trie, and no decode.
C12_MissingPathFails ==
    (MissingPath(args.lmFile) \/ MissingPath(args.lexicon)) =>
        /\ cpc \in {"assert", "failed"}
        /\ (cpc = "failed") => (error = "AssertionError")
        /\ blank = -1
        /\ silence = -1
        /\ unkWord = -1
        /\ nbest = 0
        /\ lexicon = <<>>
        /\ wordDict = <<>>
        /\ trie = {}
        /\ ~smeared
        /\ dpc = "idle"

\* C12 witness: a language model with an empty lexicon path, assert failed
C12_Witness ==
    /\ args.lmFile = "lm.arpa"
    /\ args.lexicon = ""
    /\ cpc = "failed"
    /\ error = "AssertionError"

\* the token has no counterpart in the vocabulary, whatever the letter case
AbsentFrom(v, tok) == \A k \in 1..Len(v) : Lower(v[k]) # Lower(tok)

HasAbsentToken(v, spelling) == \E k \in 1..Len(spelling) : AbsentFrom(v, spelling[k])

LexiconHasAbsentToken(a) ==
    /\ ~MissingPath(a.lexicon)
    /\ \E k \in 1..Len(SpellingsOf(load_words(a.lexicon))) :
          HasAbsentToken(a.vocabulary, SpellingsOf(load_words(a.lexicon))[k].spelling)

\* the step of _initializeTrie on a spelling with a token the vocabulary lacks
C13_Step ==
    (cpc = "insert" /\ pending # <<>>
        /\ HasAbsentToken(args.vocabulary, pending[1].spelling)) =>
        /\ cpc' = "failed"
        /\ error' = "ValueError"
        /\ trie' = trie
        /\ pending' = pending

C13_NoDecoder ==
    LexiconHasAbsentToken(args) =>
        /\ cpc \notin {"options", "ready"}
        /\ ~smeared
        /\ dpc = "idle"
        /\ (cpc = "failed") => (error \in {"ValueError", "AssertionError"})

\* C13: a lexicon with a spelling that contains a token absent from the
\* vocabulary never yields a decoder: the step that reaches that spelling raises
\* ValueError and inserts nothing for it, neither whole nor with the token
\* dropped; the trie is never smeared, no options are built, no decode runs.
C13_AbsentTokenAborts == [][C13_Step]_vars /\ []C13_NoDecoder

\* C13 witness: word "a" was inserted, then the spelling (a, c) of word "ac"
\* raised ValueError and is still the pending one
C13_Witness ==
    /\ args.lexicon = "absent.lex"
    /\ cpc = "failed"
    /\ error = "ValueError"
    /\ pending # <<>>
    /\ pending[1].spelling = <<"a", "c">>
    /\ trie = {[spelling |-> <<Index(args.vocabulary, "a")>>, word |-> 0, score |-> -2]}

\* the index of the vocabulary token equal to tok up to letter case
FoldIndex(v, tok) ==
    (CHOOSE k \in 1..Len(v) :
        Lower(v[k]) = Lower(tok) /\ \A j \in 1..(k - 1) : Lower(v[j]) # Lower(tok)) - 1

\* the step of _initializeTrie on a spelling whose tokens all have a counterpart
\* in the vocabulary up to letter case, none of them the unknown token
C14_Step ==
    (cpc = "insert" /\ pending # <<>>
        /\ ~HasAbsentToken(args.vocabulary, pending[1].spelling)
        /\ \A k \in 1..Len(pending[1].spelling) :
              FoldIndex(args.vocabulary, pending[1].spelling[k]) # unkWord) =>
        /\ cpc' = "insert"
        /\ trie' = trie \cup
              {[spelling |-> [k \in 1..Len(pending[1].spelling) |->
                                 FoldIndex(args.vocabulary, pending[1].spelling[k])],
                word |-> get_index(wordDict, pending[1].word),
                score |-> LMScore(pending[1].word)]}

\* C14: a spelling token and a vocabulary token that differ only in letter case
\* resolve to the index of that vocabulary token, whichever of the two is upper
\* case: the spelling is inserted under the indices found up to letter case.
C14_CaseInsensitive == [][C14_Step]_vars

\* the spelling (A, B) resolved against the lower-case vocabulary
C14_LowerVocabularyResolves ==
    /\ args.lexicon = "upper.lex"
    /\ args.vocabulary = BaseArgs.vocabulary
    /\ trie = {[spelling |-> <<2, 3>>, word |-> 0, score |-> -1]}

\* the spelling (a, b) against the vocabulary with "A" and "B": ValueError
C14_UpperVocabularyFails ==
    /\ args.lexicon = "ab.lex"
    /\ args.vocabulary = <<"<s>", "|", "A", "B", "<unk>">>
    /\ cpc = "failed"
    /\ error = "ValueError"
    /\ pending # <<>>

\* the payload scores at the node and below it
SubtreePayloadScores(tr, node) ==
    {e.score : e \in {p \in tr : Len(node) <= Len(p.spelling)
                                  /\ SubSeq(p.spelling, 1, Len(node)) = node}}

C15_Smeared ==
    smeared =>
        /\ DOMAIN maxScore = TrieNodes(trie)
        /\ pending = << >>
        /\ \A node \in DOMAIN maxScore :
              /\ maxScore[node] = MaxOf(SubtreePayloadScores(trie, node))
              /\ \A below \in DOMAIN maxScore :
                    (Len(node) <= Len(below) /\ SubSeq(below, 1, Len(node)) = node)
                        => maxScore[node] >= maxScore[below]

\* once smeared, the trie and its scores are left alone
C15_Step == smeared => (trie' = trie /\ maxScore' = maxScore /\ smeared')

\* C15: the trie is smeared once, after the last insertion and with nothing
\* inserted after; from then on the score of every node is the maximum payload
\* score of its subtree and is at least the score of every node below it.
C15_SmearingMonotone == []C15_Smeared /\ [][C15_Step]_vars

\* C15 witness: the node of "a" carries the score of the better word "ab"
\* below it, not the score of its own word
C15_Witness ==
    /\ args.lexicon = "a_ab.lex"
    /\ smeared
    /\ cpc = "ready"
    /\ maxScore[<<2>>] = LMScore(<<"a", "b">>)
    /\ maxScore[<<2>>] > LMScore(<<"a">>)
    /\ maxScore[<<2, 3>>] = LMScore(<<"a", "b">>)

\* C21: the four lists of the result have one entry per batch item, appended
\* in batch order; each entry holds at most one hypothesis, the one kept by
\* _decodeLexicon for that item, and the four entries of an item hold the same
\* number of hypotheses.
C21_OneEntryPerItem ==
    /\ (dpc \in {"loop", "returned"}) =>
          /\ Len(allWords) = b
          /\ Len(allWordsFrames) = b
          /\ Len(allScores) = b
          /\ Len(allTimesteps) = b
          /\ \A k \in 1..b :
                /\ Len(allWords[k]) <= 1
                /\ Len(allWordsFrames[k]) = Len(allWords[k])
                /\ Len(allScores[k]) = Len(allWords[k])
                /\ Len(allTimesteps[k]) = Len(allWords[k])
    /\ (dpc = "loop" /\ b > 0) =>
          /\ Len(hypothesis) <= 1
          /\ allScores[b] = [k \in 1..Len(hypothesis) |-> hypothesis[k].score]
          /\ Len(allWords[b]) = Len(hypothesis)
    /\ (dpc = "returned") =>
          /\ b = emissions.B
          /\ result.label_sequences = allWords
          /\ result.wordsFrames = allWordsFrames
          /\ result.scores = allScores
          /\ result.timesteps = allTimesteps

\* C21 witness: two items, one hypothesis each: the word "a" for the first
\* item, no word for the second, in that order
C21_Witness ==
    /\ dpc = "returned"
    /\ args.lexicon = "a_b.lex"
    /\ emissions.B = 2
    /\ result.label_sequences = << << <<"a">> >>, << << >> >> >>
    /\ Len(result.scores[1]) = 1
    /\ Len(result.scores[2]) = 1
    /\ Len(result.timesteps[1]) = 1
    /\ Len(result.wordsFrames[2]) = 1

\* the weight is missing or is not a finite real
BadWeight(a, w) == a.weightKind[w] \in {"None", "inf", "nan"}

\* C24: a construction call with lm_weight, word_score or sil_score missing or
\* not finite never gets past the building of the options: it ends in an
\* error and no decoder exists; negative finite weights are accepted.
C24_WeightsValidated ==
    /\ (\E w \in DOMAIN args.weightKind : BadWeight(args, w)) =>
          /\ cpc # "ready"
          /\ dpc = "idle"
    /\ (args = [BaseArgs EXCEPT !.word_score = -1]) => cpc # "failed"

\* a decoder was built with an infinite lm_weight
C24_InfiniteAccepted ==
    /\ args.weightKind.lm_weight = "inf"
    /\ cpc = "ready"
    /\ error = "none"

-----------------------------------------------------------------------------
(* SpecFrames: _getWordTimestamps applied to every alignment up to MaxLen *)

Alignments == UNION {[1..n -> 0..(NumTokens - 1)] : n \in 0..MaxLen}

\* SpecFrames runs on the decoder constructed from BaseArgs
ConstructedForFrames ==
    /\ blank = ResolveBlank(BaseArgs.vocabulary)
    /\ silence = ResolveSilence(BaseArgs.vocabulary)
    /\ args = BaseArgs
    /\ cpc = "ready"
    /\ error = "none"
    /\ nbest = 1
    /\ subwords = BaseArgs.subwords
    /\ lexicon = load_words(BaseArgs.lexicon)
    /\ wordDict = create_word_dict(load_words(BaseArgs.lexicon))
    /\ unkWord = Index(BaseArgs.vocabulary, "<unk>")
    /\ pending = <<>>
    /\ trie = {[spelling |-> <<2, 3>>, word |-> 0, score |-> LMScore(<<"a", "b">>)]}
    /\ smeared = TRUE
    /\ maxScore = (<< >> :> -1) @@ (<<2>> :> -1) @@ (<<2, 3>> :> -1)
    /\ decoderOpts = DecoderOptions(BaseArgs, create_word_dict(load_words(BaseArgs.lexicon)))
    /\ InitDecode

InitFrames ==
    /\ tokenIdxs \in Alignments
    /\ ConstructedForFrames
    /\ i = 0
    /\ wordFound = 0
    /\ wordFrames = <<>>
    /\ timesteps = <<>>
    /\ timeIntervals = <<>>
    /\ fpc = "scan"
    /\ SearchIdle
    /\ CallsIdle
    /\ NoService

\* one iteration of the loop of _getWordsFrames
ScanToken ==
    /\ fpc = "scan"
    /\ i < Len(tokenIdxs)
    /\ LET st == WordsFramesStep([timesteps |-> timesteps, wordFrames |-> wordFrames,
                                  wordFound |-> wordFound], i, tokenIdxs, blank, silence)
       IN /\ timesteps' = st.timesteps
          /\ wordFrames' = st.wordFrames
          /\ wordFound' = st.wordFound
    /\ i' = i + 1
    /\ UNCHANGED <<tokenIdxs, timeIntervals, fpc, selfVars, ctorVars, decodeVars, searchVars, callVars, serviceVars, streamVars,
                   langVars>>

\* the loop ends: return timesteps to _getWordTimestamps
ScanReturn ==
    /\ fpc = "scan"
    /\ i = Len(tokenIdxs)
    /\ fpc' = "intervals"
    /\ UNCHANGED <<tokenIdxs, i, wordFound, wordFrames, timesteps, timeIntervals, selfVars, ctorVars, decodeVars, searchVars, callVars, serviceVars, streamVars,
                   langVars>>

\* one iteration of the loop of _getWordTimestamps
AppendInterval ==
    /\ fpc = "intervals"
    /\ Len(timeIntervals) < Len(timesteps)
    /\ timeIntervals' = Append(timeIntervals, _getTimeInterval(timesteps[Len(timeIntervals) + 1]))
    /\ UNCHANGED <<tokenIdxs, i, wordFound, wordFrames, timesteps, fpc, selfVars, ctorVars, decodeVars, searchVars, callVars, serviceVars, streamVars,
                   langVars>>

TimestampsReturn ==
    /\ fpc = "intervals"
    /\ Len(timeIntervals) = Len(timesteps)
    /\ fpc' = "done"
    /\ UNCHANGED <<tokenIdxs, i, wordFound, wordFrames, timesteps, timeIntervals, selfVars, ctorVars, decodeVars, searchVars, callVars, serviceVars, streamVars,
                   langVars>>

NextFrames == ScanToken \/ ScanReturn \/ AppendInterval \/ TimestampsReturn

SpecFrames == InitFrames /\ [][NextFrames]_vars

-----------------------------------------------------------------------------
(* Properties of _getWordsFrames and _getTimeInterval (SpecFrames) *)

\* positions (Python indices) of the silence tokens among the first n tokens
SilencePositions(n) == {p \in 0..(n - 1) : tokenIdxs[p + 1] = silence}

\* the frames of all runs emitted so far
EmittedFrames(ts) == UNION {{ts[k][j] : j \in 1..Len(ts[k])} : k \in 1..Len(ts)}

IsPrefix(s, t) == Len(s) <= Len(t) /\ \A k \in 1..Len(s) : s[k] = t[k]

\* what one loop iteration of _getWordsFrames may do, for claim C4
C4_Step ==
    (fpc = "scan" /\ i < Len(tokenIdxs)) =>
        LET tok == tokenIdxs[i + 1]
            closes == tok = silence /\ wordFrames # <<>>
        IN /\ (timesteps' # timesteps) <=> closes
           /\ closes => /\ timesteps' = Append(timesteps, wordFrames)
                         /\ wordFrames' = <<>>
                         /\ wordFound' = 0
           /\ (tok # silence) => /\ timesteps' = timesteps
                                  /\ IsPrefix(wordFrames, wordFrames')
           /\ (wordFound = 1) <=> (wordFrames # <<>>)
           /\ Len(timesteps') <= Cardinality(SilencePositions(i + 1))
           /\ \A f \in EmittedFrames(timesteps') :
                  \E p \in SilencePositions(i + 1) : f < p

\* C4: in _getWordsFrames a run is appended exactly when a silence token is
\* scanned while frames are accumulated (and the run state is then reset); a
\* silence with nothing accumulated emits nothing; a change between two
\* non-silence tokens never splits the run; the number of runs never exceeds
\* the number of silence tokens scanned and every emitted frame precedes a
\* scanned silence (frames after the last silence are never emitted).
C4_RunsDelimitedBySilence == [][C4_Step]_vars

\* C4 witness: an alignment with a token change inside a run, a silence that
\* closed the run, a silence with nothing accumulated and frames left over
C4_Witness ==
    /\ fpc = "done"
    /\ tokenIdxs = <<2, 3, 1, 1, 3>>
    /\ timesteps = << <<0, 1>> >>
    /\ wordFrames = <<4>>

\* the two alignments of claim C5, for a regular token a
C5_First(a) == <<a, a, blank, a, silence>>
C5_Second(a) == <<a, blank, a, a, silence>>

\* C5 as stated: each of the two alignments yields exactly one run and the run
\* of one is the run of the other.
C5_Original_SameRun ==
    \A a \in 2..(NumTokens - 1) :
        (fpc = "done" /\ tokenIdxs = C5_First(a)) =>
            /\ Len(timesteps) = 1
            /\ timesteps = _getWordsFrames(C5_Second(a), blank, silence)

\* C5 amended: each of the two alignments yields exactly one run; both runs
\* start at frame 0 and end at frame 3, so both give the interval (0, 80) ms;
\* the frame lists themselves are <<0,1,3>> and <<0,2,3>>.
C5_SameBoundary ==
    \A a \in 2..(NumTokens - 1) :
        (fpc = "done" /\ tokenIdxs \in {C5_First(a), C5_Second(a)}) =>
            /\ Len(timesteps) = 1
            /\ timesteps[1][1] = 0
            /\ timesteps[1][Len(timesteps[1])] = 3
            /\ timeIntervals = << <<0, 80>> >>
            /\ timesteps[1] = IF tokenIdxs = C5_First(a) THEN <<0, 1, 3>> ELSE <<0, 2, 3>>

C5_Witness ==
    /\ fpc = "done"
    /\ tokenIdxs = C5_Second(2)
    /\ timesteps = << <<0, 2, 3>> >>

\* C6: every frame of every run (emitted or being accumulated) is the
\* position of a token that is neither blank nor silence.
C6_FramesAreRegularTokens ==
    \A f \in EmittedFrames(Append(timesteps, wordFrames)) :
        /\ f \in 0..(Len(tokenIdxs) - 1)
        /\ tokenIdxs[f + 1] # blank
        /\ tokenIdxs[f + 1] # silence

\* C6 witness: blanks before, inside and after a run that was emitted
C6_Witness ==
    /\ fpc = "done"
    /\ tokenIdxs = <<0, 2, 0, 3, 1>>
    /\ timesteps = << <<1, 3>> >>

\* C7: the interval of a run with first frame f and last frame l is
\* (f * 20 ms, l * 20 ms + 20 ms).
C7_IntervalOfRun ==
    /\ Len(timeIntervals) <= Len(timesteps)
    /\ (fpc = "done") => Len(timeIntervals) = Len(timesteps)
    /\ \A k \in 1..Len(timeIntervals) :
          LET f == timesteps[k][1]
              l == timesteps[k][Len(timesteps[k])]
          IN timeIntervals[k] = <<f * 20, l * 20 + 20>>

\* C7 witness: two runs, the second from frame 2 to frame 3
C7_Witness ==
    /\ fpc = "done"
    /\ tokenIdxs = <<2, 1, 3, 3, 1>>
    /\ timeIntervals = << <<0, 20>>, <<40, 80>> >>

-----------------------------------------------------------------------------
(* SpecSearch: the beam search of one item, followed time step by time step *)

\* the trie _initializeTrie builds for the arguments: every spelling inserted
TrieOf(a) ==
    {[spelling |-> SpellingIdxs(a.vocabulary, sp.spelling),
      word |-> get_index(create_word_dict(load_words(a.lexicon)), sp.word),
      score |-> LMScore(sp.word)] : sp \in SeqToSet(SpellingsOf(load_words(a.lexicon)))}

\* the instance __init__ leaves behind for arguments it accepts
ConstructedFrom(a) ==
    /\ args = a
    /\ cpc = "ready"
    /\ error = "none"
    /\ blank = ResolveBlank(a.vocabulary)
    /\ silence = ResolveSilence(a.vocabulary)
    /\ nbest = 1
    /\ subwords = a.subwords
    /\ lexicon = load_words(a.lexicon)
    /\ wordDict = create_word_dict(load_words(a.lexicon))
    /\ unkWord = Index(a.vocabulary, "<unk>")
    /\ pending = << >>
    /\ trie = TrieOf(a)
    /\ smeared = TRUE
    /\ maxScore = Smear([node \in TrieNodes(TrieOf(a)) |-> UnsmearedScore],
                        TrieOf(a), SmearingMode)
    /\ decoderOpts = DecoderOptions(a, create_word_dict(load_words(a.lexicon)))

\* lm_weight, word_score and sil_score of the decoders searched with
SearchWeights == {<<1, 0, 0>>, <<2, 6, -1>>}

SearchArgs ==
    {[BaseArgs EXCEPT !.lexicon = lx, !.lm_weight = w[1], !.word_score = w[2],
                      !.sil_score = w[3]] :
        lx \in {"a_b.lex", "a_ab.lex"}, w \in SearchWeights}

\* a frame that leans to token k: the other tokens trail by 10
SoftFrame(k, N) == [n \in 1..N |-> IF n - 1 = k THEN 0 ELSE -10]

\* an acoustically ambiguous frame: every token has the same score
FlatFrame(N) == [n \in 1..N |-> -1]

\* a frame that cannot tell a from b: both lead, the other tokens trail by 10
TiedFrame(N) == [n \in 1..N |-> IF n - 1 \in {2, 3} THEN 0 ELSE -10]

\* the frames of the searches: flat, tied, or leaning to blank, silence, a or b
SearchFrames(N) == {FlatFrame(N), TiedFrame(N)} \cup {SoftFrame(k, N) : k \in 0..3}

RECURSIVE Concat(_)
Concat(frames) == IF frames = << >> THEN << >> ELSE frames[1] \o Concat(Tail(frames))

\* one item of up to MaxSteps frames
SearchInputs(N) ==
    UNION {{[B |-> 1, T |-> T, N |-> N, data |-> Concat(fr)] :
               fr \in [1..T -> SearchFrames(N)]} : T \in 0..MaxSteps}

InitSearch ==
    /\ \E a \in SearchArgs : ConstructedFrom(a)
    /\ emissions \in SearchInputs(Len(BaseArgs.vocabulary))
    /\ b = 0
    /\ emissionsPtr = 0
    /\ hypothesis = << >>
    /\ allWords = << >>
    /\ allWordsFrames = << >>
    /\ allScores = << >>
    /\ allTimesteps = << >>
    /\ dpc = "loop"
    /\ result = NoResult
    /\ active = InitialBeam
    /\ tstep = 0
    /\ bpc = "search"
    /\ FramesIdle
    /\ CallsIdle
    /\ NoService

\* one time step of the search: expansion over the frame, then pruning
SearchStep ==
    /\ bpc = "search"
    /\ tstep < emissions.T
    /\ active' = Prune(Candidates(active,
                                  SubSeq(EmissionSlice(emissions, b),
                                         tstep * emissions.N + 1,
                                         (tstep + 1) * emissions.N),
                                  trie, blank, silence, decoderOpts),
                       decoderOpts)
    /\ tstep' = tstep + 1
    /\ UNCHANGED <<bpc, selfVars, ctorVars, frameVars, decodeVars, callVars, serviceVars, streamVars,
                   langVars>>

\* after the last time step: the ranked results, of which _decodeLexicon
\* keeps the first self._nbest
SearchEnd ==
    /\ bpc = "search"
    /\ tstep = emissions.T
    /\ LET ranked == Ranked(active, Cardinality(active))
       IN hypothesis' = Take([k \in 1..Len(ranked) |->
                                 [score |-> ranked[k].score,
                                  tokens |-> ranked[k].tokens,
                                  words |-> ranked[k].words]], nbest)
    /\ emissionsPtr' = ByteOffset(b, emissions.T, emissions.N)
    /\ bpc' = "done"
    /\ UNCHANGED <<active, tstep, emissions, b, allWords, allWordsFrames, allScores,
                   allTimesteps, dpc, result, selfVars, ctorVars, frameVars, callVars, serviceVars, streamVars,
                   langVars>>

NextSearch == SearchStep \/ SearchEnd

SpecSearch == InitSearch /\ [][NextSearch]_vars

-----------------------------------------------------------------------------
(* Properties of the beam search (SpecSearch) *)

\* C16: after the pruning of every time step the active hypotheses are at most
\* beam_size = 15 and each one's score is within beam_threshold = 25 of the
\* best active score.
C16_BeamBounded ==
    (bpc \in {"search", "done"}) =>
        /\ Cardinality(active) <= 15
        /\ \A g, h \in active : g.score - h.score <= 25

\* C16 witness: the width cut the beam to 15 hypotheses
C16_Witness ==
    /\ bpc = "search"
    /\ tstep >= 1
    /\ Cardinality(active) = 15
    /\ Cardinality(Candidates(active,
                              SubSeq(emissions.data, 1, emissions.N),
                              trie, blank, silence, decoderOpts)) > 15

\* a candidate of the last step fell out of the score window
C16_WindowCut ==
    /\ bpc = "search"
    /\ tstep >= 2
    /\ Cardinality(active) < 15
    /\ \E g, h \in active : g.score - h.score = 20

\* the token history cut at the silences: the stretches between them, the
\* last one being the stretch after the last silence (cur is the one being read)
RECURSIVE StretchesFrom(_, _, _, _)
StretchesFrom(toks, sil, cur, out) ==
    IF toks = << >> THEN Append(out, cur)
    ELSE IF toks[1] = sil THEN StretchesFrom(Tail(toks), sil, << >>, Append(out, cur))
    ELSE StretchesFrom(Tail(toks), sil, Append(cur, toks[1]), out)

\* the regular tokens a stretch spells: repeats merged, blanks dropped
RECURSIVE Spelled(_, _, _)
Spelled(toks, prev, blk) ==
    IF toks = << >> THEN << >>
    ELSE IF toks[1] = prev \/ toks[1] = blk THEN Spelled(Tail(toks), toks[1], blk)
    ELSE <<toks[1]>> \o Spelled(Tail(toks), toks[1], blk)

\* what the stretches of a token history spell, the empty ones left out
SpelledStretches(toks, blk, sil) ==
    LET st == StretchesFrom(toks, sil, << >>, << >>)
    IN SelectSeq([k \in 1..(Len(st) - 1) |-> Spelled(st[k], -1, blk)],
                 LAMBDA x : x # << >>)

\* what is spelled since the last silence
SpelledSinceCommit(toks, blk, sil) ==
    LET st == StretchesFrom(toks, sil, << >>, << >>)
    IN Spelled(st[Len(st)], -1, blk)

\* the token indices are a spelling of the word in the lexicon of load_words
IsSpellingOf(idxs, wordId) ==
    /\ wordId \in 0..(Len(lexicon) - 1)
    /\ \E k \in 1..Len(lexicon[wordId + 1].spellings) :
          LET sp == lexicon[wordId + 1].spellings[k]
          IN /\ Len(sp) = Len(idxs)
             /\ \A j \in 1..Len(sp) : args.vocabulary[idxs[j] + 1] = Lower(sp[j])

\* C17: in every active hypothesis the regular tokens since the last committed
\* word spell the path from the trie root to its current node; each word id of
\* its history is a lexicon word whose spelling the tokens before the
\* committing silence traversed; no returned hypothesis has the unknown word.
C17_LexiconConstrained ==
    (bpc \in {"search", "done"}) =>
        /\ \A h \in active :
              /\ h.node = SpelledSinceCommit(h.tokens, blank, silence)
              /\ h.node \in TrieNodes(trie)
              /\ Len(h.words) = Len(SpelledStretches(h.tokens, blank, silence))
              /\ \A k \in 1..Len(h.words) :
                    /\ h.words[k] # decoderOpts.unk_token_idx
                    /\ IsSpellingOf(SpelledStretches(h.tokens, blank, silence)[k],
                                    h.words[k])
        /\ \A k \in 1..Len(hypothesis) : \A j \in 1..Len(hypothesis[k].words) :
              /\ hypothesis[k].words[j] # get_index(wordDict, UnkWordString)
              /\ hypothesis[k].words[j] \in 0..(Len(lexicon) - 1)

\* C17 witness: word "a" committed by a silence, then "a" spelled again on the
\* way to "ab", with the word returned at the end of another search
C17_Witness ==
    /\ args.lexicon = "a_ab.lex"
    /\ bpc = "done"
    /\ \E h \in active : /\ h.tokens = <<2, 1, 2>>
                          /\ h.words = <<0>>
                          /\ h.node = <<2>>
    /\ hypothesis # << >>
    /\ hypothesis[1].words # << >>

\* the sum of the emissions of the tokens of an alignment, frame by frame
RECURSIVE Acoustic(_, _, _)
Acoustic(toks, data, N) ==
    IF toks = << >> THEN 0
    ELSE data[toks[1] + 1] + Acoustic(Tail(toks), SubSeq(data, N + 1, Len(data)), N)

RECURSIVE LMTotal(_)
LMTotal(wordIds) ==
    IF wordIds = << >> THEN 0
    ELSE LMScore(get_entry(wordDict, wordIds[1])) + LMTotal(Tail(wordIds))

\* acoustic + lm_weight * LM + word_score * words + sil_score * silences
CombinedScore(h) ==
    Acoustic(h.tokens, emissions.data, emissions.N)
    + args.lm_weight * LMTotal(h.words)
    + args.word_score * Len(h.words)
    + args.sil_score * Len(SelectSeq(h.tokens, LAMBDA x : x = silence))

\* C18: the score of every hypothesis is its combined score; after the last
\* time step the one hypothesis returned is a final hypothesis that no final
\* hypothesis beats on combined score, nor equals with a shorter token history.
C18_TopIsBest ==
    /\ (bpc \in {"search", "done"}) => \A h \in active : h.score = CombinedScore(h)
    /\ (bpc = "done") =>
          /\ Len(hypothesis) = IF active = {} THEN 0 ELSE 1
          /\ \A k \in 1..Len(hypothesis) :
                /\ \E h \in active : /\ h.tokens = hypothesis[k].tokens
                                      /\ h.words = hypothesis[k].words
                                      /\ h.score = hypothesis[k].score
                /\ \A g \in active :
                      /\ g.score <= hypothesis[k].score
                      /\ (g.score = hypothesis[k].score)
                            => Len(hypothesis[k].tokens) <= Len(g.tokens)

\* C18 witness: a frame tied between a and b, then a silence; the words "a"
\* and "b" compete and "a", of the better language-model score, is returned
C18_Witness ==
    /\ args.lexicon = "a_b.lex"
    /\ args.lm_weight = 2
    /\ emissions.data = TiedFrame(emissions.N) \o SoftFrame(silence, emissions.N)
    /\ bpc = "done"
    /\ hypothesis[1].tokens = <<2, 1>>
    /\ hypothesis[1].words = <<0>>
    /\ hypothesis[1].score = 2 * LMScore(<<"a">>) + 6 - 1
    /\ \E g \in active : /\ g.tokens = <<3, 1>>
                          /\ g.words = <<1>>
                          /\ g.score = 2 * LMScore(<<"b">>) + 6 - 1
                          /\ g.score < hypothesis[1].score

-----------------------------------------------------------------------------
(* SpecCalls: decode called again and again on one instance, and by a      *)
(* second caller whose call interleaves with the first caller's            *)

CallArgs == [BaseArgs EXCEPT !.lexicon = "a_b.lex"]

\* the emissions the callers pass: no frame; a; a then silence; two items
CallInputs(N) ==
    {Tensor(1, 0, N, << >>), Tensor(1, 1, N, <<2>>), Tensor(1, 2, N, <<2, 1>>),
     Tensor(2, 2, N, <<3, 1, 2, 1>>)}

InitCalls ==
    /\ ConstructedFrom(CallArgs)
    /\ InitDecode
    /\ FramesIdle
    /\ SearchIdle
    /\ CallsIdle
    /\ NoService

\* where the first caller is, as the second caller sees it: the item the
\* first caller's loop is at, or -1 outside the loop
FirstCallerAt == IF dpc = "loop" THEN b ELSE -1

\* decode(emissions) entered with the lists of an earlier call still in place
CallBeginKeepsLists ==
    /\ cpc = "ready"
    /\ dpc \in {"idle", "returned"}
    /\ Len(returned) < MaxCalls
    /\ \E em \in CallInputs(Len(args.vocabulary)) : emissions' = em
    /\ b' = 0
    /\ dpc' = "loop"
    /\ UNCHANGED <<allWords, allWordsFrames, allScores, allTimesteps, emissionsPtr,
                   hypothesis, result, selfVars, ctorVars, frameVars, searchVars,
                   callVars, serviceVars, streamVars, langVars>>

\* decode(emissions) is called, for the first time or after a call returned
\* (lines 114-116)
CallBegin ==
    /\ cpc = "ready"
    /\ dpc \in {"idle", "returned"}
    /\ Len(returned) < MaxCalls
    /\ \E em \in CallInputs(Len(args.vocabulary)) : emissions' = em
    /\ b' = 0
    /\ allWords' = << >>
    /\ allWordsFrames' = << >>
    /\ allScores' = << >>
    /\ allTimesteps' = << >>
    /\ dpc' = "loop"
    /\ UNCHANGED <<emissionsPtr, hypothesis, result, selfVars, ctorVars, frameVars,
                   searchVars, callVars, serviceVars, streamVars, langVars>>

\* the call returns its _DecodeResult (lines 126-131)
CallReturn ==
    /\ dpc = "loop"
    /\ b = emissions.B
    /\ result' = DecodeResultOf(allWords, allWordsFrames, allScores, allTimesteps)
    /\ dpc' = "returned"
    /\ returned' = Append(returned, [emissions |-> emissions, result |-> result'])
    /\ UNCHANGED <<emissions, b, emissionsPtr, hypothesis, allWords, allWordsFrames,
                   allScores, allTimesteps, other, selfVars, ctorVars, frameVars,
                   searchVars, serviceVars, streamVars, langVars>>

\* the second caller calls decode (lines 114-116)
OtherBegin ==
    /\ cpc = "ready"
    /\ other.dpc = "idle"
    /\ Len(returned) < MaxCalls
    /\ \E em \in CallInputs(Len(args.vocabulary)) :
          other' = [NoCaller EXCEPT !.emissions = em, !.dpc = "loop",
                                    !.beganAt = FirstCallerAt]
    /\ UNCHANGED <<returned, selfVars, ctorVars, frameVars, decodeVars, searchVars,
                   serviceVars, streamVars, langVars>>

\* one iteration of the second caller's loop, its results appended to the
\* lists of the first caller
OtherItemSharedLists ==
    /\ other.dpc = "loop"
    /\ other.b < other.emissions.B
    /\ dpc = "loop"
    /\ LET hyp == _decodeLexicon(other.emissions, other.b, trie, blank, silence,
                                 decoderOpts, nbest)
           post == _postProcessHypothesis(hyp, wordDict, subwords, blank, silence)
       IN /\ allWords' = Append(allWords, post.words)
          /\ allWordsFrames' = Append(allWordsFrames, post.wordsFrames)
          /\ allScores' = Append(allScores, post.scores)
          /\ allTimesteps' = Append(allTimesteps, post.timesteps)
    /\ other' = [other EXCEPT !.b = @ + 1]
    /\ UNCHANGED <<returned, emissions, b, emissionsPtr, hypothesis, dpc, result,
                   selfVars, ctorVars, frameVars, searchVars, serviceVars, streamVars,
                   langVars>>

\* one iteration of the second caller's loop over the batch (lines 117-125)
OtherItem ==
    /\ other.dpc = "loop"
    /\ other.b < other.emissions.B
    /\ LET hyp == _decodeLexicon(other.emissions, other.b, trie, blank, silence,
                                 decoderOpts, nbest)
           post == _postProcessHypothesis(hyp, wordDict, subwords, blank, silence)
       IN other' = [other EXCEPT
                      !.allWords = Append(@, post.words),
                      !.allWordsFrames = Append(@, post.wordsFrames),
                      !.allScores = Append(@, post.scores),
                      !.allTimesteps = Append(@, post.timesteps),
                      !.b = @ + 1]
    /\ UNCHANGED <<returned, selfVars, ctorVars, frameVars, decodeVars, searchVars,
                   serviceVars, streamVars, langVars>>

\* the second caller's call returns (lines 126-131)
OtherReturn ==
    /\ other.dpc = "loop"
    /\ other.b = other.emissions.B
    /\ other' = [other EXCEPT
                    !.result = DecodeResultOf(other.allWords, other.allWordsFrames,
                                              other.allScores, other.allTimesteps),
                    !.dpc = "returned",
                    !.endedAt = FirstCallerAt]
    /\ returned' = Append(returned, [emissions |-> other.emissions,
                                     result |-> other'.result])
    /\ UNCHANGED <<selfVars, ctorVars, frameVars, decodeVars, searchVars, serviceVars,
                   streamVars, langVars>>

NextCalls ==
    \/ CallBegin
    \/ DecodeItem
    \/ CallReturn
    \/ OtherBegin
    \/ OtherItem
    \/ OtherReturn

SpecCalls == InitCalls /\ [][NextCalls]_vars

-----------------------------------------------------------------------------
(* Properties of repeated and interleaved calls (SpecCalls) *)

\* C19: two decode calls on the instance with the same emissions return the
\* same words, frame runs, scores and time intervals, whatever calls returned
\* in between.
C19_Deterministic ==
    \A j, k \in 1..Len(returned) :
        (returned[j].emissions = returned[k].emissions) =>
            /\ returned[j].result.label_sequences = returned[k].result.label_sequences
            /\ returned[j].result.wordsFrames = returned[k].result.wordsFrames
            /\ returned[j].result.scores = returned[k].result.scores
            /\ returned[j].result.timesteps = returned[k].result.timesteps

\* C19 witness: the first caller decoded "a |", then the two items, then "a |"
\* again, and got the word "a" over [0, 20] ms both times
C19_Witness ==
    /\ other.dpc = "idle"
    /\ Len(returned) = 3
    /\ returned[1].emissions = Tensor(1, 2, 5, <<2, 1>>)
    /\ returned[2].emissions = Tensor(2, 2, 5, <<3, 1, 2, 1>>)
    /\ returned[3].emissions = returned[1].emissions
    /\ returned[1].result.label_sequences = << << <<"a">> >> >>
    /\ returned[1].result.timesteps = << << << <<0, 20>> >> >> >>
    /\ returned[3].result = returned[1].result

\* the post-processed hypotheses of item bb, decoded by the instance as it
\* was constructed
PostAlone(em, bb) ==
    _postProcessHypothesis(
        _decodeLexicon(em, bb, TrieOf(CallArgs), ResolveBlank(CallArgs.vocabulary),
                       ResolveSilence(CallArgs.vocabulary),
                       DecoderOptions(CallArgs, create_word_dict(load_words(CallArgs.lexicon))),
                       1),
        create_word_dict(load_words(CallArgs.lexicon)), CallArgs.subwords,
        ResolveBlank(CallArgs.vocabulary), ResolveSilence(CallArgs.vocabulary))

\* what decode(em) returns when no other call runs on the instance
DecodeAlone(em) ==
    [label_sequences |-> [k \in 1..em.B |-> PostAlone(em, k - 1).words],
     wordsFrames |-> [k \in 1..em.B |-> PostAlone(em, k - 1).wordsFrames],
     scores |-> [k \in 1..em.B |-> PostAlone(em, k - 1).scores],
     timesteps |-> [k \in 1..em.B |-> PostAlone(em, k - 1).timesteps]]

C20_Alone ==
    \A k \in 1..Len(returned) : returned[k].result = DecodeAlone(returned[k].emissions)

\* a step of a decode call leaves the attributes set by __init__ alone
C20_Step == UNCHANGED <<selfVars, ctorVars>>

\* C20: no step of a decode call changes what __init__ set (blank, silence,
\* word dictionary, trie and its scores, options, n-best), and every call that
\* returns, interleaved with another caller's call or not, returns what
\* decode returns for its emissions when it runs alone.
C20_CallsDoNotInterfere == []C20_Alone /\ [][C20_Step]_vars

\* C20 witness: the second caller's call began and returned while the first
\* caller was between its two items; both calls have returned
C20_Witness ==
    /\ dpc = "returned"
    /\ emissions = Tensor(2, 2, 5, <<3, 1, 2, 1>>)
    /\ other.dpc = "returned"
    /\ other.emissions = Tensor(1, 2, 5, <<2, 1>>)
    /\ other.beganAt = 1
    /\ other.endedAt = 1
    /\ Len(returned) = 2
    /\ returned[1].result = other.result
    /\ other.result.label_sequences = << << <<"a">> >> >>
    /\ returned[2].result = result
    /\ result.label_sequences[1] = << <<"b">> >>

-----------------------------------------------------------------------------
(* SpecWords: _postProcessHypothesis on the word histories a search can    *)
(* hand back, ids of -1 included                                           *)

WordArgs ==
    {[BaseArgs EXCEPT !.lexicon = "a_ab.lex"],
     [BaseArgs EXCEPT !.lexicon = "marks.lex", !.subwords = TRUE]}

\* the word histories: up to MaxWords ids, each -1 or an index of the dictionary
WordHistories(dict) ==
    UNION {[1..n -> (-1)..(Len(dict) - 1)] : n \in 0..MaxWords}

InitWords ==
    /\ \E a \in WordArgs : ConstructedFrom(a)
    /\ emissions = [B |-> 1, T |-> 0, N |-> Len(BaseArgs.vocabulary), data |-> << >>]
    /\ b = 0
    /\ emissionsPtr = 0
    /\ hypothesis = << >>
    /\ allWords = << >>
    /\ allWordsFrames = << >>
    /\ allScores = << >>
    /\ allTimesteps = << >>
    /\ dpc = "loop"
    /\ result = NoResult
    /\ active = {}
    /\ tstep = 0
    /\ bpc = "search"
    /\ FramesIdle
    /\ CallsIdle
    /\ NoService

\* _decodeLexicon hands back one result with some word history
LexiconReturns ==
    /\ bpc = "search"
    /\ dpc = "loop"
    /\ \E ids \in WordHistories(wordDict) :
          hypothesis' = <<[score |-> 0, tokens |-> << >>, words |-> ids]>>
    /\ bpc' = "done"
    /\ UNCHANGED <<active, tstep, emissions, b, emissionsPtr, allWords, allWordsFrames,
                   allScores, allTimesteps, dpc, result, selfVars, ctorVars, frameVars,
                   callVars, serviceVars, streamVars, langVars>>

\* the rest of the loop body: _postProcessHypothesis and the appends
\* (lines 120-125)
PostProcessItem ==
    /\ bpc = "done"
    /\ dpc = "loop"
    /\ b < emissions.B
    /\ LET post == _postProcessHypothesis(hypothesis, wordDict, subwords, blank, silence)
       IN /\ allWords' = Append(allWords, post.words)
          /\ allWordsFrames' = Append(allWordsFrames, post.wordsFrames)
          /\ allScores' = Append(allScores, post.scores)
          /\ allTimesteps' = Append(allTimesteps, post.timesteps)
    /\ b' = b + 1
    /\ UNCHANGED <<emissions, emissionsPtr, hypothesis, dpc, result, selfVars, ctorVars,
                   frameVars, searchVars, callVars, serviceVars, streamVars, langVars>>

NextWords == LexiconReturns \/ PostProcessItem \/ DecodeReturn

SpecWords == InitWords /\ [][NextWords]_vars

-----------------------------------------------------------------------------
(* Properties of the word strings (SpecWords) *)

\* the non-negative ids of the word history, in order
KeptIds == SelectSeq(hypothesis[1].words, LAMBDA x : x >= 0)

\* the position before the k-th entry in a string of entries separated by
\* single characters
RECURSIVE OffsetOf(_, _)
OffsetOf(ids, k) ==
    IF k = 1 THEN 0 ELSE OffsetOf(ids, k - 1) + Len(wordDict[ids[k - 1] + 1]) + 1

\* C22: in word mode the word string is the dictionary entries of the
\* non-negative ids of the word history, in their order, one space between two
\* entries; ids of -1 add nothing.
C22_WordString ==
    (dpc = "loop" /\ b = 1 /\ ~subwords) =>
        LET str == allWords[1][1]
            n == Len(KeptIds)
        IN /\ Len(allWords[1]) = 1
           /\ Len(str) = IF n = 0 THEN 0
                          ELSE OffsetOf(KeptIds, n) + Len(wordDict[KeptIds[n] + 1])
           /\ \A k \in 1..n :
                 /\ SubSeq(str, OffsetOf(KeptIds, k) + 1,
                           OffsetOf(KeptIds, k) + Len(wordDict[KeptIds[k] + 1]))
                       = wordDict[KeptIds[k] + 1]
                 /\ (k > 1) => str[OffsetOf(KeptIds, k)] = " "

\* C22 witness: ids (1, -1, 0) of the dictionary (a, ab, <unk>) give "ab a"
C22_Witness ==
    /\ dpc = "loop"
    /\ b = 1
    /\ ~subwords
    /\ hypothesis[1].words = <<1, -1, 0>>
    /\ allWords[1] = << <<"a", "b", " ", "a">> >>

\* the pieces of the non-negative ids, written one after the other
Pieces == Join([k \in 1..Len(KeptIds) |-> wordDict[KeptIds[k] + 1]], << >>)

\* the positions of the characters of the pieces that are not underscores
Letters == {j \in 1..Len(Pieces) : Pieces[j] # "_"}

\* the letter at position j is the first of a word that is not the first word:
\* an underscore stands right before it and a letter somewhere before that
OpensWord(j) == /\ j > 1
                /\ Pieces[j - 1] = "_"
                /\ \E k \in Letters : k < j

\* where the letter at position j of the pieces stands in the word string
PlaceOf(j) ==
    Cardinality({k \in Letters : k <= j}) + Cardinality({k \in Letters : k <= j /\ OpensWord(k)})

\* C23: in sub-word mode the word string holds the letters of the pieces in
\* their order and nothing else but single spaces; a space stands before a
\* letter exactly when an underscore precedes it in the concatenated pieces,
\* so a boundary between two pieces without underscore breaks no word; no
\* word is empty and no underscore is left.
C23_WordPieces ==
    (dpc = "loop" /\ b = 1 /\ subwords) =>
        LET str == allWords[1][1]
        IN /\ Len(allWords[1]) = 1
           /\ \A j \in Letters : /\ PlaceOf(j) <= Len(str)
                                  /\ str[PlaceOf(j)] = Pieces[j]
                                  /\ OpensWord(j) => str[PlaceOf(j) - 1] = " "
           /\ Len(str) = Cardinality(Letters)
                             + Cardinality({k \in Letters : OpensWord(k)})
           /\ \A k \in 1..Len(str) :
                 /\ str[k] # "_"
                 /\ (str[k] = " ") => /\ k > 1 /\ k < Len(str)
                                      /\ str[k - 1] # " " /\ str[k + 1] # " "

\* C23 witness: the pieces "b", "_a", "b" give "b_ab" and the words "b" and
\* "ab": the boundary between "_a" and "b" breaks no word
C23_Witness ==
    /\ dpc = "loop"
    /\ b = 1
    /\ subwords
    /\ hypothesis[1].words = <<1, 0, 1>>
    /\ Pieces = <<"b", "_", "a", "b">>
    /\ allWords[1] = << <<"b", " ", "a", "b">> >>


-----------------------------------------------------------------------------
(* RecognizerService (asr4_streaming/recognizer_v1/service.py): the types   *)
(*                                                                         *)
(* A str is a sequence of characters.  An exception is the string of its   *)
(* class and, for ValueError, of the fixed part of its message (the value  *)
(* quoted inside the message is left out).  A Duration is the record of    *)
(* its seconds and nanos; a timedelta is a number of microseconds.         *)

LowerLetters ==
    <<"a", "b", "c", "d", "e", "f", "g", "h", "i", "j", "k", "l", "m",
      "n", "o", "p", "q", "r", "s", "t", "u", "v", "w", "x", "y", "z">>

UpperLetters ==
    <<"A", "B", "C", "D", "E", "F", "G", "H", "I", "J", "K", "L", "M",
      "N", "O", "P", "Q", "R", "S", "T", "U", "V", "W", "X", "Y", "Z">>

\* str.upper() of one character
UpperChar(c) ==
    IF \E k \in 1..Len(LowerLetters) : LowerLetters[k] = c
    THEN UpperLetters[CHOOSE k \in 1..Len(LowerLetters) : LowerLetters[k] = c]
    ELSE c

\* str.upper()
Upper(str) == [k \in 1..Len(str) |-> UpperChar(str[k])]

\* str.replace("-", "_")
ReplaceHyphen(str) == [k \in 1..Len(str) |-> IF str[k] = "-" THEN "_" ELSE str[k]]

\* a str and a Language member as Python values
PyStr(chars) == [type |-> "str", v |-> chars]
Member(name) == [type |-> "Language", v |-> name]

\* class Language(Enum): the names of the members
EN_US == <<"E", "N", "_", "U", "S">>
ES == <<"E", "S">>
PT_BR == <<"P", "T", "_", "B", "R">>
LanguageNames == {EN_US, ES, PT_BR}

\* the value of the member of a name
LanguageValue(name) ==
    CASE name = EN_US -> <<"e", "n", "-", "U", "S">>
      [] name = ES -> <<"e", "s">>
      [] name = PT_BR -> <<"p", "t", "-", "B", "R">>

\* Language.parse looking the name up as it is written
parseExact(language) ==
    IF language.type = "Language" THEN language
    ELSE IF language.type = "str" /\ language.v \in LanguageNames
         THEN Member(language.v)
         ELSE PyNone

\* Language.parse(language)
parse(language) ==
    IF language.type = "Language" THEN language
    ELSE IF language.type = "str" /\ ReplaceHyphen(Upper(language.v)) \in LanguageNames
         THEN Member(ReplaceHyphen(Upper(language.v)))
         ELSE PyNone

\* Language.check(language)
check(language) == parse(language) # PyNone

\* SampleRate.check(sample_rate_hz): the supported sample rates
SampleRateCheck(rate) == rate \in {8000, 16000}

\* AudioEncoding.check(audio_encoding): PCM is the one encoding
AudioEncodingCheck(encoding) == encoding = "PCM"

\* RecognitionResource.Model.Name(topic) does not raise: GENERIC is the one model
ModelKnown(topic) == topic = "GENERIC"

\* AudioEncoding.getSampleSizeInBytes(): 16-bit samples
SampleSizeInBytes == 2

\* _validateParameters checking the sample rate before the language
_validateParametersRateFirst(parameters, lang) ==
    IF ~SampleRateCheck(parameters.sample_rate_hz)
    THEN "ValueError: Invalid value for sample_rate_hz parameter"
    ELSE IF ~check(PyStr(parameters.language))
    THEN "ValueError: Invalid value for language parameter"
    ELSE IF parse(PyStr(parameters.language)) # lang
    THEN "ValueError: Invalid language"
    ELSE IF ~AudioEncodingCheck(parameters.audio_encoding)
    THEN "ValueError: Invalid value for audio_encoding parameter"
    ELSE "none"

\* _validateParameters(parameters): the exception raised, or "none"
_validateParameters(parameters, lang) ==
    IF ~check(PyStr(parameters.language))
    THEN "ValueError: Invalid value for language parameter"
    ELSE IF parse(PyStr(parameters.language)) # lang
    THEN "ValueError: Invalid language"
    ELSE IF ~SampleRateCheck(parameters.sample_rate_hz)
    THEN "ValueError: Invalid value for sample_rate_hz parameter"
    ELSE IF ~AudioEncodingCheck(parameters.audio_encoding)
    THEN "ValueError: Invalid value for audio_encoding parameter"
    ELSE "none"

\* _validateResource(resource)
_validateResource(resource) ==
    IF ~ModelKnown(resource.topic)
    THEN "ValueError: Invalid value for topic resource"
    ELSE "none"

\* _validateConfig(config): the parameters, then the resource (the record of
\* a config holds the fields of both)
_validateConfig(cfg, lang) ==
    IF _validateParameters(cfg, lang) # "none"
    THEN _validateParameters(cfg, lang)
    ELSE _validateResource(cfg)

\* _validateAudio accepting every payload
_validateAudioAny(audio) == "none"

\* _validateAudio(audio)
_validateAudio(audio) ==
    IF Len(audio) = 0 THEN "ValueError: Empty value for audio" ELSE "none"

\* eventSource(request): the exception raised, or "none" when it returns None
eventSource(req, lang) ==
    IF _validateConfig(req.config, lang) # "none"
    THEN _validateConfig(req.config, lang)
    ELSE _validateAudio(req.audio)

\* Duration.FromTimedelta(td)
FromTimedelta(micros) ==
    [seconds |-> micros \div 1000000, nanos |-> (micros % 1000000) * 1000]

\* calculateAudioDuration(audio, audioEncoding, sampleRate): the exception
\* raised or the Duration (one channel; the payloads of the model divide
\* into whole microseconds)
calculateAudioDuration(audio, encoding, rate) ==
    IF rate = 0
    THEN [error |-> "ZeroDivisionError", duration |-> ZeroDuration]
    ELSE [error |-> "none",
          duration |-> FromTimedelta((Len(audio) * 1000000)
                                     \div (SampleSizeInBytes * rate))]

-----------------------------------------------------------------------------
(* SpecStream: one StreamingRecognize call (lines 106-183)                  *)
(*                                                                         *)
(* The request stream is drawn at the start.  The engine and its handler   *)
(* are a library outside the repository: the handler's result iterator may *)
(* produce a result at any time and ends after notifyEndOfAudio.           *)
(* listenForTranscription runs as a task of the same event loop, so each   *)
(* of its steps runs between two steps of StreamingRecognize.              *)

\* the service constructs no W2lKenLMDecoder: its engine is a library
NoDecoder ==
    /\ args = BaseArgs
    /\ cpc = "idle"
    /\ error = "none"
    /\ blank = -1
    /\ silence = -1
    /\ nbest = 0
    /\ subwords = FALSE
    /\ lexicon = << >>
    /\ wordDict = << >>
    /\ unkWord = -1
    /\ pending = << >>
    /\ trie = {}
    /\ smeared = FALSE
    /\ maxScore = << >>
    /\ decoderOpts = [beam_size |-> 0, beam_size_token |-> 0, beam_threshold |-> 0,
                      lm_weight |-> 0, word_score |-> 0, sil_score |-> 0,
                      unk_token_idx |-> -1]

\* the language codes of a server's configuration file and of the requests
EnUsCode == <<"e", "n", "-", "U", "S">>
EsCode == <<"e", "s">>
PtBrCode == <<"p", "t", "-", "B", "R">>

ServerLanguageCodes == {EnUsCode, EsCode}

\* a payload of two 16-bit samples, b"0000"
SomeAudio == <<48, 48, 48, 48>>

\* the config of the functional tests, for a language code
ValidConfig(code) ==
    [language |-> code, sample_rate_hz |-> 16000, audio_encoding |-> "PCM",
     topic |-> "GENERIC"]

\* a StreamingRecognizeRequest: the oneof holds a config, an audio payload or nothing
ConfigRequest(cfg) == [kind |-> "config", config |-> cfg, audio |-> << >>]
AudioRequest(audio) == [kind |-> "audio", config |-> DefaultConfig, audio |-> audio]
EmptyRequest == [kind |-> "", config |-> DefaultConfig, audio |-> << >>]

\* request.HasField(name)
HasField(req, name) == req.kind = name

StreamConfigs ==
    {ValidConfig(EnUsCode), ValidConfig(EsCode),
     [ValidConfig(EnUsCode) EXCEPT !.language = << >>],
     [ValidConfig(EnUsCode) EXCEPT !.sample_rate_hz = 16001]}

StreamRequests ==
    {EmptyRequest, AudioRequest(SomeAudio), AudioRequest(<< >>)}
    \cup {ConfigRequest(cfg) : cfg \in StreamConfigs}

\* the request streams of at most MaxRequests messages
RequestStreams ==
    UNION {[1..n -> StreamRequests] : n \in 0..MaxRequests}

\* a WordTiming of the engine, times in milliseconds
Word(chars, start, end) ==
    [word |-> chars, start |-> start, end |-> end, probability |-> 1]

\* what the engine may return: the text and its segments
EngineResults ==
    {[text |-> <<"h", "i">>,
      segments |-> << [avg_logprob |-> -2, words |-> << Word(<<"h", "i">>, 1000, 1500) >>] >>],
     [text |-> <<"h", "i", " ", "y", "o">>,
      segments |-> << [avg_logprob |-> -2, words |-> << Word(<<"h", "i">>, 1000, 1500) >>],
                      [avg_logprob |-> -4, words |-> << Word(<<"y", "o">>, 1800, 2600) >>] >>],
     [text |-> << >>, segments |-> << [avg_logprob |-> 0, words |-> << >>] >>],
     [text |-> << >>, segments |-> << >>]}

InitStream ==
    /\ NoDecoder
    /\ InitDecode
    /\ FramesIdle
    /\ SearchIdle
    /\ CallsIdle
    /\ ServiceIdle
    /\ LanguageIdle
    /\ \E code \in ServerLanguageCodes : selfLanguage = parse(PyStr(code))
    /\ requestIterator \in RequestStreams
    /\ reqPos = 0
    /\ handler = NoneVal
    /\ config = DefaultConfig
    /\ listenerTask = "none"
    /\ streamHasEnded = FALSE
    /\ notified = 0
    /\ produced = << >>
    /\ written = << >>
    /\ spc = "loop"
    /\ yielded = << >>

\* the call ends with an exception
StreamRaise(exc) ==
    /\ spc' = "failed"
    /\ svcError' = exc

\* one iteration of the async for (lines 118-150).  The config is copied
\* before it is validated; a valid config gets a handler and starts the
\* listener task.  An audio payload has its duration computed with the
\* parameters of the config held, is validated, and is then passed to
\* self.__sendAudioChunk: inside the class the name is mangled to
\* _RecognizerService__sendAudioChunk, which no class defines (line 249
\* defines sendAudioChunk), so the attribute lookup raises AttributeError
\* before anything is handed to the engine.
StreamRequest ==
    /\ spc = "loop"
    /\ reqPos < Len(requestIterator)
    /\ reqPos' = reqPos + 1
    /\ LET req == requestIterator[reqPos + 1]
           cfg == IF HasField(req, "config") THEN req.config ELSE config
           cfgError == IF HasField(req, "config")
                       THEN _validateConfig(cfg, selfLanguage) ELSE "none"
           duration == calculateAudioDuration(req.audio, cfg.audio_encoding,
                                              cfg.sample_rate_hz)
       IN /\ config' = cfg
          /\ IF cfgError # "none"
             THEN /\ StreamRaise(cfgError)
                  /\ UNCHANGED <<handler, listenerTask>>
             ELSE /\ IF HasField(req, "config")
                     THEN handler' = "handler" /\ listenerTask' = "listening"
                     ELSE UNCHANGED <<handler, listenerTask>>
                  /\ IF ~HasField(req, "audio")
                     THEN UNCHANGED <<spc, svcError>>
                     ELSE IF duration.error # "none"
                     THEN StreamRaise(duration.error)
                     ELSE IF _validateAudio(req.audio) # "none"
                     THEN StreamRaise(_validateAudio(req.audio))
                     ELSE StreamRaise("AttributeError")
    /\ UNCHANGED <<requestIterator, streamHasEnded, notified, produced, written, yielded,
                   selfLanguage, request, rpc, transcription, response, engineAudio,
                   sinkArgs, frameVars, selfVars, ctorVars, decodeVars, searchVars, callVars,
                   langVars>>

\* the request stream has ended (lines 151-152): handler is None when no
\* config was received, and None has no notifyEndOfAudio
StreamEnd ==
    /\ spc = "loop"
    /\ reqPos = Len(requestIterator)
    /\ IF handler = NoneVal
       THEN /\ StreamRaise("AttributeError")
            /\ UNCHANGED <<notified, streamHasEnded>>
       ELSE /\ notified' = notified + 1
            /\ streamHasEnded' = TRUE
            /\ spc' = "await"
            /\ UNCHANGED svcError
    /\ UNCHANGED <<requestIterator, reqPos, handler, config, listenerTask, produced,
                   written, yielded, selfLanguage, request, rpc, transcription, response,
                   engineAudio, sinkArgs, frameVars, selfVars, ctorVars, decodeVars, searchVars,
                   callVars, langVars>>

RECURSIVE SumLogprob(_)
SumLogprob(segments) ==
    IF segments = << >> THEN 0 ELSE segments[1].avg_logprob + SumLogprob(Tail(segments))

\* calculateAverageScore(segments): the exception raised or the score
calculateAverageScore(segments) ==
    IF Len(segments) = 0
    THEN [error |-> "ZeroDivisionError", score |-> 0]
    ELSE [error |-> "none",
          score |-> SumLogprob(segments) \div Len(segments)]

\* extractWords(segments)
extractWords(segments) == Concat([k \in 1..Len(segments) |-> segments[k].words])

\* the handler's iterator produces a result and the listener runs one
\* iteration of its loop (lines 166-182).  response is None in the first
\* iteration, so nothing is written at line 168; the TranscriptionResult is
\* built (lines 169-173); line 175 reads the local variable duration, which
\* no line has assigned, and raises UnboundLocalError: lines 176-182 never
\* run and the task ends with the exception.
ListenerResult ==
    /\ listenerTask = "listening"
    /\ spc \in {"loop", "await"}
    /\ Len(produced) < MaxResults
    /\ \E partialResult \in EngineResults :
          /\ produced' = Append(produced, partialResult)
          /\ listenerTask' =
                IF calculateAverageScore(partialResult.segments).error # "none"
                THEN calculateAverageScore(partialResult.segments).error
                ELSE "UnboundLocalError"
    /\ UNCHANGED <<requestIterator, reqPos, handler, config, streamHasEnded, notified,
                   written, spc, yielded, serviceVars, frameVars, selfVars, ctorVars,
                   decodeVars, searchVars, callVars, langVars>>

\* the handler's iterator ends after the end of the audio was notified and
\* the listener returns (line 183): response is still None, and
\* buildPartialResult reads response.alternatives (line 188)
ListenerReturn ==
    /\ listenerTask = "listening"
    /\ notified > 0
    /\ listenerTask' = "AttributeError"
    /\ UNCHANGED <<requestIterator, reqPos, handler, config, streamHasEnded, notified,
                   produced, written, spc, yielded, serviceVars, frameVars, selfVars,
                   ctorVars, decodeVars, searchVars, callVars, langVars>>

\* the listener task is awaited (lines 153-155): its exception is raised
\* here, its return value yielded
StreamAwait ==
    /\ spc = "await"
    /\ listenerTask # "listening"
    /\ StreamRaise(listenerTask)
    /\ UNCHANGED <<requestIterator, reqPos, handler, config, listenerTask, streamHasEnded,
                   notified, produced, written, yielded, selfLanguage, request, rpc,
                   transcription, response, engineAudio, sinkArgs, frameVars, selfVars, ctorVars,
                   decodeVars, searchVars, callVars, langVars>>

NextStream ==
    \/ StreamRequest
    \/ StreamEnd
    \/ ListenerResult
    \/ ListenerReturn
    \/ StreamAwait

SpecStream == InitStream /\ [][NextStream]_vars

\* the event loop runs every task that can run, and the handler's iterator
\* ends once the end of the audio is notified
FairSpecStream == SpecStream /\ WF_vars(NextStream)

-----------------------------------------------------------------------------
(* SpecStream: the claims on StreamingRecognize *)

\* the stream is one valid config message followed by at least one
\* non-empty audio chunk
ConfigThenAudio ==
    /\ Len(requestIterator) >= 2
    /\ HasField(requestIterator[1], "config")
    /\ _validateConfig(requestIterator[1].config, selfLanguage) = "none"
    /\ \A k \in 2..Len(requestIterator) :
          /\ HasField(requestIterator[k], "audio")
          /\ Len(requestIterator[k].audio) > 0

\* the call has yielded one response, its first alternative carries the
\* text of a result of the engine, and the call has ended
YieldedTranscription ==
    /\ spc = "done"
    /\ Len(yielded) = 1
    /\ \E k \in 1..Len(produced) :
          yielded[1].alternatives[1].transcript = produced[k].text

\* C25: for a request stream of one valid config message followed by at
\* least one non-empty audio chunk, StreamingRecognize eventually yields a
\* response whose first alternative's transcript is the transcription the
\* engine produced, and then the stream ends.
C25_EventuallyYields == ConfigThenAudio => <>YieldedTranscription

\* the call of C25's stream ends at its first audio chunk with the
\* AttributeError of the lookup of __sendAudioChunk, nothing yielded
C25_FailsAtFirstChunk ==
    /\ ConfigThenAudio
    /\ spc = "failed"
    /\ svcError = "AttributeError"
    /\ reqPos = 2
    /\ engineAudio = << >>
    /\ yielded = << >>

\* the stream holds a message and no message of it holds a config
NoConfigReceived ==
    /\ Len(requestIterator) >= 1
    /\ \A k \in 1..Len(requestIterator) : ~HasField(requestIterator[k], "config")

\* the call has ended, with a response or with an exception
StreamOver == spc \in {"done", "failed"}

\* C26: a request stream in which no config message is ever received is
\* rejected with a protocol error, 'Empty request' when its message carries
\* no audio either and 'RecognitionConfig was never received' when it
\* carries audio, and no audio is handed to the engine.
C26_NoConfigRejected ==
    (NoConfigReceived /\ StreamOver) =>
        /\ spc = "failed"
        /\ svcError = IF HasField(requestIterator[1], "audio")
                      THEN "RecognitionConfig was never received"
                      ELSE "Empty request"
        /\ engineAudio = << >>

\* the stream of one empty message ends in the AttributeError of
\* None.notifyEndOfAudio
C26_EmptyRequestFails ==
    /\ requestIterator = <<EmptyRequest>>
    /\ spc = "failed"
    /\ svcError = "AttributeError"

\* the stream of one audio message ends in the ZeroDivisionError of the
\* duration computed with the sample rate 0 of the default config
C26_AudioAloneFails ==
    /\ requestIterator = <<AudioRequest(SomeAudio)>>
    /\ spc = "failed"
    /\ svcError = "ZeroDivisionError"

\* the stream is one valid config message and nothing else
ConfigAlone ==
    /\ Len(requestIterator) = 1
    /\ HasField(requestIterator[1], "config")
    /\ _validateConfig(requestIterator[1].config, selfLanguage) = "none"

\* C27: a request stream that carries a valid config message but never any
\* audio is rejected with the error 'Audio was never received' instead of
\* yielding a response.
C27_NoAudioRejected ==
    (ConfigAlone /\ StreamOver) =>
        /\ spc = "failed"
        /\ svcError = "Audio was never received"
        /\ yielded = << >>

\* the stream of one valid config ends in the AttributeError of
\* buildPartialResult(None), raised by the listener and passed on by the
\* await of line 153
C27_ConfigAloneFails ==
    /\ ConfigAlone
    /\ spc = "failed"
    /\ svcError = "AttributeError"
    /\ produced = << >>
    /\ notified = 1

-----------------------------------------------------------------------------
(* SpecRecognize: Recognize (lines 78-104) and the methods it is made of,   *)
(* called on a constructed service.  One call is followed at a time: a     *)
(* call starts when no StreamingRecognize call is being followed.          *)

\* getWord(word) of eventSink (lines 292-301): the times of a WordTiming
\* are in milliseconds
getWord(word) ==
    [start_time |-> FromTimedelta(word.start * 1000),
     end_time |-> FromTimedelta(word.end * 1000),
     word |-> word.word,
     confidence |-> word.probability]

\* eventSink keeping the first word timing only
eventSinkFirstWord(res, duration, endTime) ==
    [alternatives |->
        << [transcript |-> res.transcription, confidence |-> res.score,
            words |-> IF Len(res.words) > 0 THEN << getWord(res.words[1]) >> ELSE << >>] >>,
     end_time |-> endTime,
     duration |-> duration]

\* eventSink(response, duration, endTime)
eventSink(res, duration, endTime) ==
    [alternatives |->
        << [transcript |-> res.transcription, confidence |-> res.score,
            words |-> IF Len(res.words) > 0
                      THEN [k \in 1..Len(res.words) |-> getWord(res.words[k])]
                      ELSE << >>] >>,
     end_time |-> endTime,
     duration |-> duration]

\* the TranscriptionResult of eventHandle and of the listener (lines 263-267)
TranscriptionResultOf(res) ==
    [transcription |-> res.text,
     score |-> calculateAverageScore(res.segments).score,
     words |-> extractWords(res.segments)]

\* the requests: every field valid or not, the audio empty or not
RequestLanguages ==
    {EnUsCode, EsCode, PtBrCode, <<"e", "n", "_", "u", "s">>, << >>, <<"x", "x">>}

RecognizeRequests ==
    {[config |-> [language |-> code, sample_rate_hz |-> rate,
                  audio_encoding |-> encoding, topic |-> topic],
      audio |-> audio] :
        code \in RequestLanguages, rate \in {8000, 16000, 16001},
        encoding \in {"PCM", "2"}, topic \in {"GENERIC", "-1"},
        audio \in {SomeAudio, << >>}}

\* the results eventSink is called with
SinkResults == {TranscriptionResultOf(res) : res \in EngineResults}

\* the durations eventSink is called with
SinkDurations == {ZeroDuration, FromTimedelta(125), FromTimedelta(2500000)}

InitRecognize ==
    /\ NoDecoder
    /\ InitDecode
    /\ FramesIdle
    /\ SearchIdle
    /\ CallsIdle
    /\ StreamIdle
    /\ ServiceIdle
    /\ LanguageIdle
    /\ \E code \in ServerLanguageCodes : selfLanguage = parse(PyStr(code))

\* Recognize is called and validates its request (line 85): an exception of
\* eventSource ends the call
RecognizeSource ==
    /\ rpc = "idle"
    /\ spc = "idle"
    /\ \E req \in RecognizeRequests :
          /\ request' = req
          /\ IF eventSource(req, selfLanguage) # "none"
             THEN /\ rpc' = "failed"
                  /\ svcError' = eventSource(req, selfLanguage)
             ELSE /\ rpc' = "handle"
                  /\ svcError' = "none"
    /\ UNCHANGED <<selfLanguage, transcription, response, engineAudio, sinkArgs,
                   streamVars, frameVars, selfVars, ctorVars, decodeVars, searchVars,
                   callVars, langVars>>

\* the duration and eventHandle (lines 86-102, 254-272): the audio is
\* handed to the engine, whose result becomes a TranscriptionResult
RecognizeHandle ==
    /\ rpc = "handle"
    /\ IF calculateAudioDuration(request.audio, request.config.audio_encoding,
                                 request.config.sample_rate_hz).error # "none"
       THEN /\ rpc' = "failed"
            /\ svcError' = calculateAudioDuration(request.audio,
                                                  request.config.audio_encoding,
                                                  request.config.sample_rate_hz).error
            /\ UNCHANGED <<engineAudio, transcription>>
       ELSE IF parse(PyStr(request.config.language)) # selfLanguage
       THEN /\ rpc' = "failed"
            /\ svcError' = "ValueError: Invalid language"
            /\ UNCHANGED <<engineAudio, transcription>>
       ELSE /\ engineAudio' = Append(engineAudio, request.audio)
            /\ \E res \in EngineResults :
                  IF calculateAverageScore(res.segments).error # "none"
                  THEN /\ rpc' = "failed"
                       /\ svcError' = calculateAverageScore(res.segments).error
                       /\ UNCHANGED transcription
                  ELSE /\ rpc' = "sink"
                       /\ transcription' = TranscriptionResultOf(res)
                       /\ UNCHANGED svcError
    /\ UNCHANGED <<selfLanguage, request, response, sinkArgs, streamVars, frameVars,
                   selfVars, ctorVars, decodeVars, searchVars, callVars, langVars>>

\* eventSink with the duration of the audio, and the return (lines 103-104)
RecognizeSink ==
    /\ rpc = "sink"
    /\ LET duration == calculateAudioDuration(request.audio,
                                              request.config.audio_encoding,
                                              request.config.sample_rate_hz).duration
       IN /\ sinkArgs' = [supplied |-> TRUE, duration |-> duration, endTime |-> duration]
          /\ response' = eventSink(transcription, duration, duration)
    /\ rpc' = "done"
    /\ UNCHANGED <<selfLanguage, request, svcError, transcription, engineAudio,
                   streamVars, frameVars, selfVars, ctorVars, decodeVars, searchVars,
                   callVars, langVars>>

\* eventSink is called on its own, with both durations or with neither
\* (lines 286-315: the defaults are Duration(seconds=0, nanos=0))
EventSinkCall ==
    /\ rpc = "idle"
    /\ spc = "idle"
    /\ \E res \in SinkResults, supplied \in BOOLEAN, duration \in SinkDurations,
          endTime \in SinkDurations :
          /\ transcription' = res
          /\ sinkArgs' = IF supplied
                         THEN [supplied |-> TRUE, duration |-> duration,
                               endTime |-> endTime]
                         ELSE [supplied |-> FALSE, duration |-> ZeroDuration,
                               endTime |-> ZeroDuration]
          /\ response' = eventSink(res, sinkArgs'.duration, sinkArgs'.endTime)
    /\ rpc' = "sunk"
    /\ UNCHANGED <<selfLanguage, request, svcError, engineAudio, streamVars, frameVars,
                   selfVars, ctorVars, decodeVars, searchVars, callVars, langVars>>

NextRecognize == RecognizeSource \/ RecognizeHandle \/ RecognizeSink \/ EventSinkCall

SpecRecognize == InitRecognize /\ [][NextRecognize]_vars

-----------------------------------------------------------------------------
(* SpecService: a constructed service serves one call, a Recognize call or *)
(* a StreamingRecognize call                                               *)

InitService == InitRecognize \/ InitStream

NextService == NextRecognize \/ NextStream

SpecService == InitService /\ [][NextService]_vars

\* Recognize has validated its request
SourceDone == rpc \in {"handle", "sink", "done", "failed"}

\* the last message the loop of StreamingRecognize took is an empty audio chunk
EmptyChunkTaken ==
    /\ reqPos >= 1
    /\ HasField(requestIterator[reqPos], "audio")
    /\ Len(requestIterator[reqPos].audio) = 0

\* C28 as stated: an audio payload of zero length is always rejected with
\* ValueError 'Empty value for audio', by eventSource for a Recognize
\* request and for a chunk inside StreamingRecognize, and is never forwarded
\* to the engine.
C28_Original_AlwaysEmptyValue ==
    /\ (SourceDone /\ Len(request.audio) = 0) =>
          /\ rpc = "failed"
          /\ svcError = "ValueError: Empty value for audio"
    /\ EmptyChunkTaken =>
          /\ spc = "failed"
          /\ svcError = "ValueError: Empty value for audio"
    /\ \A k \in 1..Len(engineAudio) : Len(engineAudio[k]) > 0

\* C28: an audio payload of zero length is rejected and never forwarded to
\* the engine; the exception is ValueError 'Empty value for audio' when the
\* config of the Recognize request is valid, and for a chunk of a stream
\* when a valid config was received before it (the config is validated
\* first, and a chunk without config fails in the duration computation).
C28_EmptyAudioRejected ==
    /\ (SourceDone /\ Len(request.audio) = 0) =>
          /\ rpc = "failed"
          /\ svcError # "none"
          /\ (_validateConfig(request.config, selfLanguage) = "none") =>
                svcError = "ValueError: Empty value for audio"
    /\ EmptyChunkTaken =>
          /\ spc = "failed"
          /\ svcError # "none"
          /\ (handler # NoneVal) => svcError = "ValueError: Empty value for audio"
    /\ \A k \in 1..Len(engineAudio) : Len(engineAudio[k]) > 0

\* C28 witness: eventSource rejected a request whose config is valid and
\* whose audio is empty
C28_Witness ==
    /\ rpc = "failed"
    /\ Len(request.audio) = 0
    /\ _validateConfig(request.config, selfLanguage) = "none"
    /\ svcError = "ValueError: Empty value for audio"
    /\ engineAudio = << >>

\* an empty chunk after a valid config is rejected in the stream
C28_EmptyChunkRejected ==
    /\ EmptyChunkTaken
    /\ handler # NoneVal
    /\ spc = "failed"
    /\ svcError = "ValueError: Empty value for audio"

\* a non-empty payload does reach the engine in Recognize
C28_AudioForwarded == engineAudio = <<SomeAudio>>

-----------------------------------------------------------------------------
(* SpecRecognize: the claims on the validation of a request *)

\* the four properties of the config of the request, as the claim words them
LanguageValid == parse(PyStr(request.config.language)) # PyNone
LanguageMatches == parse(PyStr(request.config.language)) = selfLanguage
SampleRateSupported == request.config.sample_rate_hz \in {8000, 16000}
EncodingSupported == request.config.audio_encoding = "PCM"
TopicKnown == request.config.topic = "GENERIC"

ConfigAccepted ==
    /\ LanguageValid
    /\ LanguageMatches
    /\ SampleRateSupported
    /\ EncodingSupported
    /\ TopicKnown

\* what eventSource did with the request, by the property that fails first
C29_Outcome ==
    /\ (svcError = "ValueError: Invalid value for language parameter") <=> ~LanguageValid
    /\ (svcError = "ValueError: Invalid language") <=>
          (LanguageValid /\ ~LanguageMatches)
    /\ (svcError = "ValueError: Invalid value for sample_rate_hz parameter") <=>
          (LanguageValid /\ LanguageMatches /\ ~SampleRateSupported)
    /\ (svcError = "ValueError: Invalid value for audio_encoding parameter") <=>
          (LanguageValid /\ LanguageMatches /\ SampleRateSupported
           /\ ~EncodingSupported)
    /\ (svcError = "ValueError: Invalid value for topic resource") <=>
          (LanguageValid /\ LanguageMatches /\ SampleRateSupported
           /\ EncodingSupported /\ ~TopicKnown)
    /\ (svcError = "ValueError: Empty value for audio") <=>
          (ConfigAccepted /\ Len(request.audio) = 0)
    /\ (svcError = "none") <=> (ConfigAccepted /\ Len(request.audio) > 0)
    /\ (rpc = "handle") <=> (svcError = "none")
    /\ (rpc = "failed") <=> (svcError # "none")

C29_Accepted ==
    /\ rpc = "handle"
    /\ svcError = "none"
    /\ request.config.language = <<"e", "n", "_", "u", "s">>
    /\ selfLanguage = Member(EN_US)

\* a valid language that is not the server's is rejected as such
C29_OtherLanguage ==
    /\ rpc = "failed"
    /\ request.config.language = PtBrCode
    /\ svcError = "ValueError: Invalid language"

-----------------------------------------------------------------------------
(* SpecRecognize: the claim on eventSink *)

\* eventSink has returned: inside Recognize or called on its own
SinkReturned == rpc \in {"done", "sunk"}

\* a Duration in milliseconds
Millis(duration) == duration.seconds * 1000 + duration.nanos \div 1000000

\* C30: eventSink always returns a response with exactly one alternative,
\* whose transcript and confidence are the result's transcription and score
\* and whose word list has exactly one entry per word timing of the result,
\* in the same order (an empty list when the result has no word timings);
\* duration and end_time are zero when not supplied.
C30_SinkResponse ==
    SinkReturned =>
        /\ Len(response.alternatives) = 1
        /\ response.alternatives[1].transcript = transcription.transcription
        /\ response.alternatives[1].confidence = transcription.score
        /\ Len(response.alternatives[1].words) = Len(transcription.words)
        /\ \A k \in 1..Len(transcription.words) :
              /\ response.alternatives[1].words[k].word = transcription.words[k].word
              /\ response.alternatives[1].words[k].confidence
                    = transcription.words[k].probability
              /\ Millis(response.alternatives[1].words[k].start_time)
                    = transcription.words[k].start
              /\ Millis(response.alternatives[1].words[k].end_time)
                    = transcription.words[k].end
        /\ (transcription.words = << >>) => response.alternatives[1].words = << >>
        /\ IF sinkArgs.supplied
           THEN /\ response.duration = sinkArgs.duration
                /\ response.end_time = sinkArgs.endTime
           ELSE /\ response.duration = [seconds |-> 0, nanos |-> 0]
                /\ response.end_time = [seconds |-> 0, nanos |-> 0]

\* C30 witness: eventSink called without durations on a result of two word
\* timings returns the two words in order and zero durations
C30_Witness ==
    /\ rpc = "sunk"
    /\ ~sinkArgs.supplied
    /\ Len(transcription.words) = 2
    /\ response.alternatives[1].words[1].word = <<"h", "i">>
    /\ response.alternatives[1].words[2].word = <<"y", "o">>
    /\ response.alternatives[1].words[2].end_time = [seconds |-> 2, nanos |-> 600000000]
    /\ response.alternatives[1].confidence = -3
    /\ response.duration = [seconds |-> 0, nanos |-> 0]

\* a result without word timings gives an empty word list, inside Recognize
C30_NoWords ==
    /\ rpc = "done"
    /\ transcription.words = << >>
    /\ response.alternatives[1].words = << >>
    /\ response.duration = [seconds |-> 0, nanos |-> 125000]

-----------------------------------------------------------------------------
(* SpecLanguage: Language.parse and Language.check (asr4/types/language.py) *)
(* called once each on one argument                                        *)

\* str.lower(), to write arguments in lower case
LowerChar(c) ==
    IF \E k \in 1..Len(UpperLetters) : UpperLetters[k] = c
    THEN LowerLetters[CHOOSE k \in 1..Len(UpperLetters) : UpperLetters[k] = c]
    ELSE c

LowerStr(str) == [k \in 1..Len(str) |-> LowerChar(str[k])]

\* every string of at most MaxCode characters over the letters of "es" and
\* the two separators
ShortStrings == UNION {[1..n -> {"e", "s", "E", "S", "-", "_"}] : n \in 0..MaxCode}

\* the spellings of the members: value and name, in lower and upper case,
\* with either separator
MemberStrings ==
    UNION {{name, LanguageValue(name), LowerStr(name), Upper(LanguageValue(name)),
            ReplaceHyphen(LanguageValue(name)), LowerStr(LanguageValue(name))} :
           name \in LanguageNames}

\* strings close to a member that are not one
OtherStrings ==
    {<<"e", "n", "U", "S">>, <<"e", "n", " ", "U", "S">>, <<"e", "n", "-", "U", "S", "A">>,
     <<"e", "N", "_", "u", "s">>, <<"P", "t", "-", "b", "R">>, <<"p", "t">>,
     <<"x", "x">>, <<" ", "e", "s">>, <<"I", "N", "V", "A", "L", "I", "D">>}

\* the arguments: strings, the members themselves, None and a value that is
\* neither str nor Language
LanguageInputs ==
    {PyStr(str) : str \in ShortStrings \cup MemberStrings \cup OtherStrings}
    \cup {Member(name) : name \in LanguageNames}
    \cup {PyNone, [type |-> "int", v |-> << >>]}

InitLanguage ==
    /\ NoDecoder
    /\ InitDecode
    /\ FramesIdle
    /\ SearchIdle
    /\ CallsIdle
    /\ selfLanguage = PyNone
    /\ ServiceIdle
    /\ StreamIdle
    /\ languageArg \in LanguageInputs
    /\ parsed = PyNone
    /\ checked = FALSE
    /\ lpc = "call"

\* Language.parse(language) (lines 12-19)
ParseCall ==
    /\ lpc = "call"
    /\ parsed' = parse(languageArg)
    /\ lpc' = "parsed"
    /\ UNCHANGED <<languageArg, checked, frameVars, selfVars, ctorVars, decodeVars,
                   searchVars, callVars, serviceVars, streamVars>>

\* Language.check(language) (lines 21-23)
CheckCall ==
    /\ lpc = "parsed"
    /\ checked' = check(languageArg)
    /\ lpc' = "returned"
    /\ UNCHANGED <<languageArg, parsed, frameVars, selfVars, ctorVars, decodeVars,
                   searchVars, callVars, serviceVars, streamVars>>

NextLanguage == ParseCall \/ CheckCall

SpecLanguage == InitLanguage /\ [][NextLanguage]_vars

\* two characters that differ at most in case or are the two separators
AlikeChar(c, d) ==
    \/ c = d
    \/ {c, d} = {"-", "_"}
    \/ \E k \in 1..Len(LowerLetters) : {c, d} = {LowerLetters[k], UpperLetters[k]}

\* two strings that differ at most in letter case and in '-' against '_'
Alike(x, y) ==
    /\ Len(x) = Len(y)
    /\ \A k \in 1..Len(x) : AlikeChar(x[k], y[k])

\* the argument is a string alike to the value of the member of that name
SpellsMember(name) ==
    /\ languageArg.type = "str"
    /\ Alike(languageArg.v, LanguageValue(name))

\* C31: for every Language member l, parse(l.value) = l and parse(l) = l;
\* parse ignores letter case and treats '-' and '_' alike; every other
\* input, including the empty string, yields None; and check(x) is true
\* exactly when parse(x) is not None.
C31_ParseCheck ==
    (lpc = "returned") =>
        /\ \A name \in LanguageNames :
              /\ (languageArg = PyStr(LanguageValue(name))) => parsed = Member(name)
              /\ (languageArg = Member(name)) => parsed = Member(name)
              /\ SpellsMember(name) => parsed = Member(name)
        /\ \A input \in LanguageInputs :
              (input.type = "str" /\ languageArg.type = "str"
               /\ Alike(input.v, languageArg.v)) => parse(input) = parsed
        /\ (languageArg.type # "Language" /\ \A name \in LanguageNames : ~SpellsMember(name))
              => parsed = PyNone
        /\ (languageArg = PyStr(<< >>)) => parsed = PyNone
        /\ checked <=> (parsed # PyNone)

\* C31 witness: "Pt-bR" parses to the member PT_BR and check is true for it
C31_Witness ==
    /\ lpc = "returned"
    /\ languageArg = PyStr(<<"P", "t", "-", "b", "R">>)
    /\ parsed = Member(PT_BR)
    /\ checked

\* the empty string and the string without separator yield None
C31_EmptyIsNone ==
    /\ lpc = "returned"
    /\ languageArg = PyStr(<< >>)
    /\ parsed = PyNone
    /\ ~checked

-----------------------------------------------------------------------------
(* SpecFrames: the first token of the alignment, and the order of the runs *)

\* the token at index 0 is a regular token and the scan has passed it
FirstTokenRegular ==
    /\ fpc = "scan"
    /\ i >= 1
    /\ tokenIdxs[1] # blank
    /\ tokenIdxs[1] # silence

\* frame 0 is in the first run, closed or still open
FrameZeroInFirstRun ==
    IF timesteps # << >>
    THEN timesteps[1][1] = 0
    ELSE wordFrames # << >> /\ wordFrames[1] = 0

\* C32: a token at index 0 of the alignment that is neither blank nor
\* silence always starts a run containing frame 0, whatever the last token
\* of the alignment is; in particular an alignment whose first and last
\* tokens are the same regular token still reports the first word from
\* frame 0.
C32_FirstTokenStartsRun == FirstTokenRegular => FrameZeroInFirstRun

\* the alignment a, silence, a: the scan has passed the three tokens and no
\* run holds frame 0; the one run read starts at frame 2
C32_FirstWordLost ==
    /\ Len(tokenIdxs) = 3
    /\ tokenIdxs[1] = tokenIdxs[3]
    /\ tokenIdxs[1] \notin {blank, silence}
    /\ tokenIdxs[2] = silence
    /\ fpc = "scan"
    /\ i = 3
    /\ timesteps = << >>
    /\ wordFrames = <<2>>

\* when the last token differs from the first, frame 0 does start the run
C32_FirstWordKept ==
    /\ FirstTokenRegular
    /\ tokenIdxs[1] # tokenIdxs[Len(tokenIdxs)]
    /\ i = Len(tokenIdxs)
    /\ FrameZeroInFirstRun

\* the frames of a run are in strictly increasing order
StrictlyIncreasing(run) == \A k \in 1..(Len(run) - 1) : run[k] < run[k + 1]

\* C33: for every alignment, the runs returned by _getWordsFrames are
\* non-empty, each is strictly increasing in frame index, and runs are
\* disjoint and ordered (the last frame of run k is smaller than the first
\* frame of run k+1); consequently every time interval has start < end and
\* the end of interval k does not exceed the start of interval k+1.
C33_RunsOrdered ==
    /\ \A k \in 1..Len(timesteps) : Len(timesteps[k]) > 0
    /\ \A k \in 1..Len(timesteps) : StrictlyIncreasing(timesteps[k])
    /\ \A k \in 1..(Len(timesteps) - 1) :
          timesteps[k][Len(timesteps[k])] < timesteps[k + 1][1]
    /\ \A k \in 1..Len(timesteps), n \in 1..Len(timesteps) :
          (k # n) => SeqToSet(timesteps[k]) \cap SeqToSet(timesteps[n]) = {}
    /\ \A k \in 1..Len(timeIntervals) : timeIntervals[k][1] < timeIntervals[k][2]
    /\ \A k \in 1..(Len(timeIntervals) - 1) :
          timeIntervals[k][2] <= timeIntervals[k + 1][1]

\* C33 witness: the runs [0, 1] and [3] of the alignment a, b, sil, a, sil
\* and their intervals
C33_Witness ==
    /\ fpc = "done"
    /\ tokenIdxs = <<2, 3, 1, 2, 1>>
    /\ timesteps = << <<0, 1>>, <<3>> >>
    /\ timeIntervals = << <<0, 40>>, <<60, 80>> >>

-----------------------------------------------------------------------------
(* Spec: the token "<unk>" in the construction of the trie *)

\* the tokens of the spellings of the loaded lexicon, in lower case
SpellingTokens ==
    UNION {UNION {{Lower(sp[k]) : k \in 1..Len(sp)} : sp \in SeqToSet(e.spellings)} :
           e \in SeqToSet(lexicon)}

\* _initializeTrie has passed line 100
PastUnkLookup == cpc \in {"insert", "smear", "options", "ready"}

\* C34: trie construction requires the vocabulary to contain the literal
\* token "<unk>": for a vocabulary without it, _initializeTrie fails before
\* inserting any spelling even when every token of every spelling is in the
\* vocabulary; and a spelling that contains the token "<unk>" itself is
\* rejected.
C34_UnkRequired ==
    /\ ~Has(args.vocabulary, "<unk>") => (~PastUnkLookup /\ trie = {})
    /\ \A e \in trie : \A k \in 1..Len(e.spelling) : e.spelling[k] # unkWord
    /\ ("<unk>" \in SpellingTokens) => cpc \notin {"smear", "options", "ready"}

\* C34 witness: the vocabulary has every token of the lexicon and no
\* "<unk>"; _initializeTrie has failed in vocabulary.index("<unk>") with an
\* empty trie
C34_Witness ==
    /\ ~Has(args.vocabulary, "<unk>")
    /\ lexicon # << >>
    /\ \A tok \in SpellingTokens : Has(args.vocabulary, tok)
    /\ cpc = "failed"
    /\ error = "ValueError"
    /\ trie = {}

\* the spelling a, <unk> of a vocabulary that has both tokens is rejected
\* by the assert, after the spelling before it was inserted
C34_UnkSpellingRejected ==
    /\ Has(args.vocabulary, "<unk>")
    /\ "<unk>" \in SpellingTokens
    /\ cpc = "failed"
    /\ error = "AssertionError"
    /\ Cardinality(trie) = 1

-----------------------------------------------------------------------------
(* SpecStream: the listener task and the order of the calls *)

\* the listener task has ended with an exception
ListenerFailed ==
    listenerTask \in {"AttributeError", "UnboundLocalError", "ZeroDivisionError"}

\* C35: in every interleaving of the results of the engine with the end of
\* the request stream, once the engine has produced a result the listener
\* does not end without a final response built from a held transcription:
\* it never ends in the failure of buildPartialResult on a response that is
\* None, nor in any other exception.
C35_FinalFromHeld == (produced # << >>) => ~ListenerFailed

\* the engine produced a result with a segment and the listener ended in
\* line 175, before any response was held
C35_ListenerFailsOnResult ==
    /\ Len(produced) = 1
    /\ produced[1].segments # << >>
    /\ listenerTask = "UnboundLocalError"
    /\ written = << >>

\* the responses the client has received, in the order of their delivery
Delivered == written \o yielded

\* the transcripts of a sequence of responses
Transcripts(responses) ==
    [k \in 1..Len(responses) |-> responses[k].alternatives[1].transcript]

\* the texts of the results of the engine
Texts(results) == [k \in 1..Len(results) |-> results[k].text]

\* C36: every result the iterator of the engine produced for a stream is
\* delivered to the client exactly once and in the order of production, as
\* a partial response written through the context or as the final response
\* yielded: what is delivered is at every moment a prefix of what was
\* produced, and all of it when the call has ended.
C36_DeliveredOnce ==
    /\ Len(Delivered) <= Len(produced)
    /\ Transcripts(Delivered) = Texts(SubSeq(produced, 1, Len(Delivered)))
    /\ StreamOver => Len(Delivered) = Len(produced)

\* the call has ended after the engine produced a result, and the client
\* has received nothing
C36_ResultDropped ==
    /\ StreamOver
    /\ produced # << >>
    /\ Delivered = << >>

\* C37: in a run of StreamingRecognize that completes, exactly one response
\* carries is_final = True, it is the last message of the response stream,
\* and every response written before it has is_final = False.  No reachable
\* state has spc = "done" (NeverCompletes), so no state of the model
\* satisfies the precondition of this formula.
C37_OneFinalLast ==
    (spc = "done") =>
        /\ Len(yielded) = 1
        /\ yielded[1].is_final
        /\ \A k \in 1..Len(written) : ~written[k].is_final

\* no call of StreamingRecognize returns
NeverCompletes == spc # "done"

\* the audio payloads of the messages the loop has taken, in their order
RECURSIVE ChunksTaken(_)
ChunksTaken(n) ==
    IF n = 0 THEN << >>
    ELSE IF HasField(requestIterator[n], "audio")
    THEN Append(ChunksTaken(n - 1), requestIterator[n].audio)
    ELSE ChunksTaken(n - 1)

\* C38: StreamingRecognize forwards the audio chunks to the engine in the
\* order of their arrival, calls notifyEndOfAudio exactly once and only
\* after the last chunk was forwarded, sets the end-of-stream event only
\* after that call, and only then waits for the final response of the
\* listener; no audio is forwarded after notifyEndOfAudio.
C38_ForwardThenNotify ==
    /\ engineAudio = ChunksTaken(reqPos)
    /\ notified <= 1
    /\ notified = 1 => reqPos = Len(requestIterator)
    /\ streamHasEnded => notified = 1
    /\ spc = "await" => streamHasEnded

\* a valid config was followed by a non-empty chunk; the loop took the
\* chunk and the call ended in line 148 with nothing forwarded to the
\* engine and no notifyEndOfAudio
C38_ChunkNotForwarded ==
    /\ ConfigThenAudio
    /\ reqPos = 2
    /\ spc = "failed"
    /\ svcError = "AttributeError"
    /\ engineAudio = << >>
    /\ notified = 0

\* the calls that are made keep their order: at most one notifyEndOfAudio,
\* after the last message, the event set after it and the wait after that
C38_EndOrder ==
    /\ notified <= 1
    /\ notified = 1 => reqPos = Len(requestIterator)
    /\ streamHasEnded => notified = 1
    /\ spc = "await" => streamHasEnded

=============================================================================
